---- MODULE Spec2Model ----
(***************************************************************************)
(* A model of gomcp's bridge between a language model and MCP tool         *)
(* providers:                                                              *)
(*   - the provider protocol client (bridge/mcpclient.go, MCPClient):      *)
(*     callers of Initialize / ListTools / CallTool, the background        *)
(*     reader readResponses, the single-slot response channel;             *)
(*   - the orchestrator's ProcessMessage (bridge.go): the retry loop       *)
(*     around model generation, tool dispatch and the final text.          *)
(***************************************************************************)
EXTENDS Integers, Sequences, FiniteSets, TLC

\* ---------------------------------------------------------------- bounds
NumCallers == 2        \* concurrent goroutines calling into one session
MaxRequests == 2       \* calls started on the session over a run
MaxNoise == 2          \* non-response lines the provider prints

MaxToolCalls == 2      \* tool calls in one model reply
MaxCount == 2          \* where the per-call counters rounds/conts/executed saturate
MaxProviders == 2      \* entries of config.MCPServers
MaxCloses == 2         \* Bridge.Close / MCPClient.Close calls over a run
MaxNameLen == 3        \* characters of a tool name handed to sanitizeToolName

\* ------------------------------------------------------ program constants
RespChanCap == 1       \* make(chan []byte, 1)
FirstFreeID == 2       \* nextID after NewMCPClient's probe used id 1
MaxAttempts == 3       \* for attempts := 0; attempts < 3; attempts++
InitialBackoff == 1    \* backoff := time.Second

Callers == 1..NumCallers
None == [kind |-> "none"]
TimeoutErr == [kind |-> "timeout"]
ClosedErr == [kind |-> "closed"]
SendErr == [kind |-> "senderr"]

\* ------------------------------------------------- provider output lines
\* A line of the provider's stdout, reduced to what readResponses looks at:
\* whether it parses as a JSON object, its "method" field, whether it has a
\* "result" key, whether it has an "error" key.  `for` is the position on
\* the wire of the request the line answers (0: answers none); `id` is the
\* JSON-RPC id it carries.
Line(json, method, result, error, for, id) ==
    [kind |-> "line", json |-> json, method |-> method, result |-> result,
     error |-> error, for |-> for, id |-> id]

Banner == Line(FALSE, "none", FALSE, FALSE, 0, 0)
NotifyLine == Line(TRUE, "notify", FALSE, FALSE, 0, 0)
ProgressLine == Line(TRUE, "notifications/progress", FALSE, FALSE, 0, 0)

NoiseLines == {Banner, NotifyLine, ProgressLine}
AnswerKinds == {"result", "error"}

VARIABLES
    nextID,       \* MCPClient.nextID
    wire,         \* requests written to the provider's stdin, in write order
    provRead,     \* how many of them the provider has answered
    providerUp,   \* the provider process is running
    noise,        \* non-response lines printed so far
    stdout,       \* the provider's stdout pipe: lines not yet read
    readerPc,     \* readResponses: "read", "forward" (blocked in the send), "closed"
    readerLine,   \* the line readResponses is sending on respChan
    respChan,     \* MCPClient.respChan (buffered, capacity 1)
    chanClosed,   \* close(c.respChan) has run
    discarded,    \* the last line readResponses read and did not forward
    pc,           \* per caller: position inside Initialize/ListTools/CallTool
    idReg,        \* per caller: the id put into rpcReq
    tmp,          \* per caller: the value loaded by c.nextID++
    mySeq,        \* per caller: position on the wire of its request
    got,          \* per caller: what the call's select returned
    started,      \* calls started so far
    \* ---- Bridge.ProcessMessage (one call at a time)
    pmPc,         \* "idle", "generate", "backoff", "tools", "continue", "done"
    attempts,     \* the retry loop's counter
    backoff,      \* the next sleep, in seconds
    err,          \* the retry loop's err
    sleeps,       \* the time.Sleep durations of this call, in order (seconds)
    outcomes,     \* what each generateLLMResponse of this call returned
    response,     \* the model's latest reply: content and tool calls
    lastToolResult, \* continuation variant: lastToolResult
    recent,       \* the output of the tool executed last
    rounds,       \* handleToolCalls invocations of this call (saturates)
    conts,        \* ContinueWithToolResults invocations of this call (saturates)
    executed,     \* tool executions of this call (saturates)
    sent,         \* the tools/call requests of the latest handleToolCalls
    toolErr,      \* the error the latest handleToolCalls returned ("" = nil)
    callArgs,     \* the arguments of the tool calls handleToolCalls was given
    dbQueries,    \* the statements the latest handleToolCalls gave to db.Query
    toolResults,  \* the outputs the latest handleToolCalls returned
    expired,      \* the 300 s deadline of this ProcessMessage call has passed
    lateWork,     \* a request, sleep or tool call began after the deadline
    ret,          \* what ProcessMessage returned
    \* ---- Bridge.Initialize, Bridge.Close and the sessions they own
    config,       \* config.MCPServers: the providers' names, in order
    initPc,       \* "new", "spawn", "handshake", "list", "settools", "ok", "failed"
    idx,          \* the range index of Initialize's loop over the providers
    toolMap,      \* Bridge.toolMap: sanitized name -> "server/tool" or built-in
    serverMap,    \* Bridge.serverMap: provider name -> session
    tools,        \* Bridge.tools: the native names of the tools, in order
    toolsSet,     \* llmClient.SetTools has been called
    llmTools,     \* the tools the model adapter holds
    listed,       \* per provider: the tools its tools/list returned
    sess,         \* per provider: its session (process and pipes)
    initErr,      \* what Initialize returned
    closes,       \* Bridge.Close calls that have returned
    closeFaults,  \* the steps that fail in the latest Close by NewMCPClient or a direct one
    name,         \* sanitizeToolName: its argument
    sanitized,    \* sanitizeToolName(name)
    resanitized,  \* sanitizeToolName(sanitizeToolName(name))
    \* ---- concurrent handleToolCalls on several sessions
    hPc,          \* per caller: "idle", "rlock", "locked", "send", "wait", "done"
    hTarget,      \* per caller: the session its tool call goes to (0 = none yet)
    hGot,         \* per caller: how its CallTool ended
    readers,      \* the callers holding b.mu.RLock
    pending,      \* per session: requests written and not yet answered
    inbox,        \* per session: answers on its respChan
    \* ---- the providers' processes
    osEnv,        \* os.Environ() of the orchestrator: KEY=value entries
    envCfg,       \* per provider: MCPServerConfig.Env, key -> value
    procEnv,      \* per provider: cmd.Env of its process, key -> value
    \* ---- the startup of a session, request by request
    suStep,       \* "write", "wait" or "register" inside the stage initPc names
    suNextID,     \* the nextID of the session being started
    suLog,        \* per provider: requests written, responses consumed, registration
    suPending,    \* ids the provider has read from stdin and not answered
    suChan,       \* the respChan of the session being started
    \* ---- b.mu, handleToolCalls and a concurrent Close
    writer,       \* b.mu is write-locked
    closePc,      \* Bridge.Close: "idle", "lock", "locked", "unlock", "drop", "done"
    unlocked      \* registry accesses made without holding b.mu

clientVars == <<nextID, wire, provRead, providerUp, noise, stdout, readerPc,
                readerLine, respChan, chanClosed, discarded, pc, idReg, tmp,
                mySeq, got, started>>

dispVars == <<sent, toolErr, callArgs, dbQueries, toolResults>>

pmVars == <<pmPc, attempts, backoff, err, sleeps, outcomes, response,
            lastToolResult, recent, rounds, conts, executed, dispVars,
            expired, lateWork, ret>>

regVars == <<config, initPc, idx, toolMap, serverMap, tools, toolsSet,
             llmTools, listed, sess, initErr, closes, closeFaults, name,
             sanitized, resanitized>>

regRest == <<config, initPc, idx, tools, toolsSet, llmTools, listed, sess,
             initErr, closes, closeFaults, name, sanitized, resanitized>>

concVars == <<hPc, hTarget, hGot, readers, pending, inbox>>

envVars == <<osEnv, envCfg, procEnv>>

startVars == <<suStep, suNextID, suLog, suPending, suChan>>

lockVars == <<writer, closePc, unlocked>>

extVars == <<envVars, startVars, lockVars>>

vars == <<clientVars, pmVars, regVars, concVars, extVars>>

\* ------------------------------------------------------- readResponses
ClassifyNoResultCheck(line) ==
    IF ~line.json THEN "skip"
    ELSE IF line.method = "notify" THEN "notification"
    ELSE "response"

\* What readResponses does with one line it has read.
Classify(line) ==
    IF ~line.json THEN "skip"                       \* json.Unmarshal failed
    ELSE IF line.method = "notify" THEN "notification"
    ELSE IF line.result THEN "response"             \* msg["result"] present
    ELSE "ignored"

\* The session as NewMCPClient returns it; `active` are the goroutines that
\* will call into it.
Sessions == 1..MaxProviders

\* No handleToolCalls is running.
InitConc ==
    /\ hPc = [c \in Callers |-> "idle"]
    /\ hTarget = [c \in Callers |-> 0]
    /\ hGot = [c \in Callers |-> ""]
    /\ readers = {}
    /\ pending = [s \in Sessions |-> 0]
    /\ inbox = [s \in Sessions |-> 0]
    /\ suStep = "write"
    /\ suNextID = 1
    /\ suLog = [s \in Sessions |-> <<>>]
    /\ suPending = <<>>
    /\ suChan = <<>>
    /\ writer = FALSE
    /\ closePc = "idle"
    /\ unlocked = {}

InitSession(active) ==
    /\ InitConc
    /\ nextID = FirstFreeID
    /\ wire = <<>>
    /\ provRead = 0
    /\ providerUp = TRUE
    /\ noise = 0
    /\ stdout = <<>>
    /\ readerPc = "read"
    /\ readerLine = None
    /\ respChan = <<>>
    /\ chanClosed = FALSE
    /\ discarded = None
    /\ pc = [c \in Callers |-> IF c \in active THEN "idle" ELSE "off"]
    /\ idReg = [c \in Callers |-> 0]
    /\ tmp = [c \in Callers |-> 0]
    /\ mySeq = [c \in Callers |-> 0]
    /\ got = [c \in Callers |-> None]
    /\ started = 0

provVars == <<provRead, providerUp, noise, stdout>>
readerVars == <<readerPc, readerLine, discarded>>
callerRegs == <<idReg, tmp, mySeq, got, started>>

\* rpcReq := {"id": c.nextID, ...}: the call starts by reading nextID.
CallBuild(c) ==
    /\ UNCHANGED <<pmVars, regVars, concVars, extVars>>
    /\ pc[c] \in {"idle", "done"}
    /\ started < MaxRequests
    /\ started' = started + 1
    /\ idReg' = [idReg EXCEPT ![c] = nextID]
    /\ got' = [got EXCEPT ![c] = None]
    /\ mySeq' = [mySeq EXCEPT ![c] = 0]
    /\ pc' = [pc EXCEPT ![c] = "inc"]
    /\ UNCHANGED <<nextID, wire, provVars, readerVars, respChan, chanClosed, tmp>>

\* c.nextID++ is a load and a store, outside any lock.
CallIncLoad(c) ==
    /\ UNCHANGED <<pmVars, regVars, concVars, extVars>>
    /\ pc[c] = "inc"
    /\ tmp' = [tmp EXCEPT ![c] = nextID]
    /\ pc' = [pc EXCEPT ![c] = "incstore"]
    /\ UNCHANGED <<nextID, wire, provVars, readerVars, respChan, chanClosed,
                   idReg, mySeq, got, started>>

CallIncStore(c) ==
    /\ UNCHANGED <<pmVars, regVars, concVars, extVars>>
    /\ pc[c] = "incstore"
    /\ nextID' = tmp[c] + 1
    /\ tmp' = [tmp EXCEPT ![c] = 0]
    /\ pc' = [pc EXCEPT ![c] = "send"]
    /\ UNCHANGED <<wire, provVars, readerVars, respChan, chanClosed, idReg,
                   mySeq, got, started>>

\* sendRequest: lock c.mu, marshal, write the line to stdin, unlock.  The
\* mutex makes the write one step; it is released when sendRequest returns.
SendRequest(c) ==
    /\ UNCHANGED <<pmVars, regVars, concVars, extVars>>
    /\ pc[c] = "send"
    /\ IF providerUp
       THEN /\ wire' = Append(wire, [id |-> idReg[c], caller |-> c])
            /\ mySeq' = [mySeq EXCEPT ![c] = Len(wire) + 1]
            /\ pc' = [pc EXCEPT ![c] = "wait"]
            /\ got' = got
       ELSE /\ got' = [got EXCEPT ![c] = SendErr]     \* write on a broken pipe
            /\ pc' = [pc EXCEPT ![c] = "done"]
            /\ UNCHANGED <<wire, mySeq>>
    /\ idReg' = [idReg EXCEPT ![c] = 0]
    /\ UNCHANGED <<nextID, provVars, readerVars, respChan, chanClosed, tmp,
                   started>>

\* select { case respBytes, ok := <-c.respChan: ... } with ok = true
CallRecv(c) ==
    /\ UNCHANGED <<pmVars, regVars, concVars, extVars>>
    /\ pc[c] = "wait"
    /\ respChan # <<>>
    /\ got' = [got EXCEPT ![c] = Head(respChan)]
    /\ respChan' = Tail(respChan)
    /\ pc' = [pc EXCEPT ![c] = "done"]
    /\ UNCHANGED <<nextID, wire, provVars, readerVars, chanClosed, idReg, tmp,
                   mySeq, started>>

\* the same case with ok = false: "response channel closed"
CallChanClosed(c) ==
    /\ UNCHANGED <<pmVars, regVars, concVars, extVars>>
    /\ pc[c] = "wait"
    /\ respChan = <<>>
    /\ chanClosed
    /\ got' = [got EXCEPT ![c] = ClosedErr]
    /\ pc' = [pc EXCEPT ![c] = "done"]
    /\ UNCHANGED <<nextID, wire, provVars, readerVars, respChan, chanClosed,
                   idReg, tmp, mySeq, started>>

\* case <-time.After(10 * time.Second)
CallTimeout(c) ==
    /\ UNCHANGED <<pmVars, regVars, concVars, extVars>>
    /\ pc[c] = "wait"
    /\ got' = [got EXCEPT ![c] = TimeoutErr]
    /\ pc' = [pc EXCEPT ![c] = "done"]
    /\ UNCHANGED <<nextID, wire, provVars, readerVars, respChan, chanClosed,
                   idReg, tmp, mySeq, started>>

\* readResponses: one iteration up to the channel send.
ReaderRead ==
    /\ UNCHANGED <<pmVars, regVars, concVars, extVars>>
    /\ readerPc = "read"
    /\ stdout # <<>>
    /\ stdout' = Tail(stdout)
    /\ IF Classify(Head(stdout)) = "response"
       THEN /\ readerPc' = "forward"
            /\ readerLine' = Head(stdout)
            /\ UNCHANGED discarded
       ELSE /\ discarded' = Head(stdout)
            /\ UNCHANGED <<readerPc, readerLine>>
    /\ UNCHANGED <<nextID, wire, provRead, providerUp, noise, respChan,
                   chanClosed, pc, callerRegs>>

\* c.respChan <- line: blocks while the buffer is full.
ReaderForward ==
    /\ UNCHANGED <<pmVars, regVars, concVars, extVars>>
    /\ readerPc = "forward"
    /\ Len(respChan) < RespChanCap
    /\ respChan' = Append(respChan, readerLine)
    /\ readerLine' = None
    /\ readerPc' = "read"
    /\ UNCHANGED <<nextID, wire, provVars, chanClosed, discarded, pc, callerRegs>>

\* ReadBytes returns an error (EOF): close(c.respChan); return
ReaderEOF ==
    /\ UNCHANGED <<pmVars, regVars, concVars, extVars>>
    /\ readerPc = "read"
    /\ stdout = <<>>
    /\ ~providerUp
    /\ chanClosed' = TRUE
    /\ readerPc' = "closed"
    /\ UNCHANGED <<nextID, wire, provVars, readerLine, discarded, respChan, pc,
                   callerRegs>>

\* The provider answers the oldest unanswered request, with a result or
\* with an error payload, carrying that request's id.
ProviderAnswer ==
    /\ UNCHANGED <<pmVars, regVars, concVars, extVars>>
    /\ providerUp
    /\ provRead < Len(wire)
    /\ \E k \in AnswerKinds :
         stdout' = Append(stdout,
                     Line(TRUE, "none", k = "result", k = "error",
                          provRead + 1, wire[provRead + 1].id))
    /\ provRead' = provRead + 1
    /\ UNCHANGED <<nextID, wire, providerUp, noise, readerVars, respChan,
                   chanClosed, pc, callerRegs>>

\* The provider prints a startup banner or a notification.
ProviderNoise ==
    /\ UNCHANGED <<pmVars, regVars, concVars, extVars>>
    /\ providerUp
    /\ noise < MaxNoise
    /\ noise' = noise + 1
    /\ \E l \in NoiseLines : stdout' = Append(stdout, l)
    /\ UNCHANGED <<nextID, wire, provRead, providerUp, readerVars, respChan,
                   chanClosed, pc, callerRegs>>

\* The provider process exits; its stdout reaches EOF once drained.
ProviderExit ==
    /\ UNCHANGED <<pmVars, regVars, concVars, extVars>>
    /\ providerUp
    /\ providerUp' = FALSE
    /\ UNCHANGED <<nextID, wire, provRead, noise, stdout, readerVars, respChan,
                   chanClosed, pc, callerRegs>>


\* =========================================================== the bridge
\* Strings are sequences of tokens: "S" is the tag <|im_start|>, "E" the tag
\* <|im_end|>, "_" a white-space character, any other token a visible one.
Tags == {"S", "E"}
Space == "_"

ModelContents ==
    {<<>>, <<"S">>, <<"E">>, <<"_">>, <<"a">>, <<"_", "a">>, <<"S", "E">>,
     <<"S", "a", "E">>}

\* Names of tools and of providers are strings as well: "-", " ", "_" and
\* "/" are those characters, any other token a run of letters.
Slash == "/"
QueryDatabase == <<"query", "_", "database">>
Echo == <<"echo">>
GetTicker == <<"get", "_", "ticker">>
GetDashTicker == <<"get", "-", "ticker">>
Bogus == <<"bogus">>
BuiltIn == QueryDatabase

\* The names a model reply may call.
ToolNames == {QueryDatabase, Echo, GetTicker, Bogus}

\* The names config.validate accepts for a provider: any non-empty string.
Srv == <<"srv">>
Team == <<"team">>
TeamPrices == <<"team", "/", "prices">>
ProviderNames == {Srv, Team, TeamPrices}

\* What a provider's tools/list may return.
Listings ==
    {<<Echo>>, <<GetDashTicker>>, <<GetTicker, Echo>>, <<QueryDatabase>>}

sanitizeToolNameDashOnly(n) ==
    [i \in 1..Len(n) |-> IF n[i] = "-" THEN "_" ELSE n[i]]

\* '-' and ' ' become '_', every other character stays
sanitizeToolName(n) ==
    [i \in 1..Len(n) |-> IF n[i] \in {"-", " "} THEN "_" ELSE n[i]]

llmSanitizeToolNameVerbatim(n) == n

\* The model adapter's own sanitizeToolName, a second copy of the function
\* with the same body: '-' and ' ' become '_'
llmSanitizeToolName(n) ==
    [i \in 1..Len(n) |-> IF n[i] \in {"-", " "} THEN "_" ELSE n[i]]

\* convertTools: the name of each tool, as the model is given it
convertTools(ts) == [i \in 1..Len(ts) |-> llmSanitizeToolName(ts[i])]

\* fmt.Sprintf("%s/%s", serverCfg.Name, tool.Name)
Join(server, tool) == server \o <<Slash>> \o tool

FirstSlash(s) ==
    IF \E i \in 1..Len(s) : s[i] = Slash
    THEN CHOOSE i \in 1..Len(s) :
            s[i] = Slash /\ \A j \in 1..(i - 1) : s[j] # Slash
    ELSE 0

\* strings.SplitN(s, "/", 2)
SplitN2(s) ==
    LET k == FirstSlash(s) IN
    IF k = 0 THEN <<s>> ELSE <<SubSeq(s, 1, k - 1), SubSeq(s, k + 1, Len(s))>>

PutIfAbsent(m, k, v) ==
    [x \in DOMAIN m \cup {k} |-> IF x \in DOMAIN m THEN m[x] ELSE v]

\* m[k] = v on a Go map
Put(m, k, v) == [x \in DOMAIN m \cup {k} |-> IF x = k THEN v ELSE m[x]]

\* a nil or empty Go map
NilMap == <<>>

\* Initialize's loop over toolsResult.Tools: the registry afterwards
RECURSIVE RegisterFrom(_, _, _, _)
RegisterFrom(tm, server, listing, i) ==
    IF i > Len(listing)
    THEN tm
    ELSE RegisterFrom(Put(tm, sanitizeToolName(listing[i]),
                          Join(server, listing[i])),
                      server, listing, i + 1)

SeqsUpTo(S, n) == UNION {[1..k -> S] : k \in 0..n}

ModelReplies ==
    [content : ModelContents, toolCalls : SeqsUpTo(ToolNames, MaxToolCalls)]

NoReply == [content |-> <<>>, toolCalls |-> <<>>]

\* Errors of the model endpoint: a net.Error whose Timeout() is true, a
\* net.Error whose Timeout() is false, any other error (a status code, a
\* decode failure).  `at` is the attempt that produced it.
ErrShapes == {[isNet |-> TRUE, timeout |-> TRUE],
              [isNet |-> TRUE, timeout |-> FALSE],
              [isNet |-> FALSE, timeout |-> FALSE]}
GenErr(shape, n) ==
    [kind |-> "err", isNet |-> shape.isNet, timeout |-> shape.timeout, at |-> n]
Ok == [kind |-> "ok"]

isRetryableErrorNoTimeoutCheck(e) ==
    /\ e.kind = "err"
    /\ e.isNet

\* isRetryableError: errors.As(err, &netErr) and then netErr.Timeout()
isRetryableError(e) ==
    /\ e.kind = "err"
    /\ e.isNet
    /\ e.timeout

NextBackoffSame(b) == b

\* backoff *= 2
NextBackoff(b) == b * 2

MoreAttemptsOffByOne(n) == n <= MaxAttempts

\* the loop condition attempts < 3
MoreAttempts(n) == n < MaxAttempts

SleepUnlessLast(slept, b, n) ==
    IF n + 1 < MaxAttempts THEN Append(slept, b) ELSE slept

\* time.Sleep(backoff) at the end of the loop body, whatever the attempt
Sleep(slept, b, n) == Append(slept, b)

\* strings.ReplaceAll(s, tag, "") for both tags
StripTags(s) == SelectSeq(s, LAMBDA t : t \notin Tags)

RECURSIVE TrimLeft(_)
TrimLeft(s) ==
    IF s # <<>> /\ Head(s) = Space THEN TrimLeft(Tail(s)) ELSE s

RECURSIVE TrimRight(_)
TrimRight(s) ==
    IF s # <<>> /\ s[Len(s)] = Space
    THEN TrimRight(SubSeq(s, 1, Len(s) - 1))
    ELSE s

\* strings.TrimSpace
TrimSpace(s) == TrimRight(TrimLeft(s))

\* "Clean up any unwanted tags in the response"
CleanContent(s) == TrimSpace(StripTags(s))

\* ProcessMessage's results
RetNone == [kind |-> "none"]
RetText(t) == [kind |-> "text", text |-> t]
RetRawErr(e) == [kind |-> "error", op |-> "", err |-> e]
BridgeError(op, e) == [kind |-> "error", op |-> op, err |-> e]

Bump(n) == IF n < MaxCount THEN n + 1 ELSE n

\* ------------------------------------------ tool arguments and results
\* Texts whose characters matter (queries, argument values, tool output)
\* are sequences of one-character tokens; in tool output "_" stands for a
\* blank or a newline.
LowerCase ==
    [A |-> "a", B |-> "b", C |-> "c", D |-> "d", E |-> "e", F |-> "f",
     G |-> "g", H |-> "h", I |-> "i", J |-> "j", K |-> "k", L |-> "l",
     M |-> "m", N |-> "n", O |-> "o", P |-> "p", Q |-> "q", R |-> "r",
     S |-> "s", T |-> "t", U |-> "u", V |-> "v", W |-> "w", X |-> "x",
     Y |-> "y", Z |-> "z"]
UpperCase ==
    [a |-> "A", b |-> "B", c |-> "C", d |-> "D", e |-> "E", f |-> "F",
     g |-> "G", h |-> "H", i |-> "I", j |-> "J", k |-> "K", l |-> "L",
     m |-> "M", n |-> "N", o |-> "O", p |-> "P", q |-> "Q", r |-> "R",
     s |-> "S", t |-> "T", u |-> "U", v |-> "V", w |-> "W", x |-> "X",
     y |-> "Y", z |-> "Z"]

\* strings.ToLower / strings.ToUpper
ToLower(s) ==
    [i \in 1..Len(s) |->
        IF s[i] \in DOMAIN LowerCase THEN LowerCase[s[i]] ELSE s[i]]
ToUpper(s) ==
    [i \in 1..Len(s) |->
        IF s[i] \in DOMAIN UpperCase THEN UpperCase[s[i]] ELSE s[i]]

\* strings.Contains
Contains(s, sub) ==
    \E i \in 1..(Len(s) - Len(sub) + 1) :
        \A k \in 1..Len(sub) : s[i + k - 1] = sub[k]

\* The statements a call of the built-in tool may carry.
SelectOne == <<"S", "E", "L", "E", "C", "T", " ", "1">>
SelectUsers == <<"S", "E", "L", "E", "C", "T", " ", "*", " ", "F", "R", "O", "M", " ", "u", "s", "e", "r", "s">>
SelectUpdated == <<"s", "e", "l", "e", "c", "t", " ", "u", "p", "d", "a", "t", "e", "d", " ", "F", "R", "O", "M", " ", "o", "r", "d", "e", "r", "s">>
ReplaceUsers == <<"R", "E", "P", "L", "A", "C", "E", " ", "I", "N", "T", "O", " ", "u", "s", "e", "r", "s">>
CreateUsers2 == <<"C", "R", "E", "A", "T", "E", " ", "T", "A", "B", "L", "E", " ", "u", "s", "e", "r", "s", "2">>
PragmaUsers == <<"P", "R", "A", "G", "M", "A", " ", "u", "s", "e", "r", "s">>
AttachUsers == <<"A", "T", "T", "A", "C", "H", " ", "u", "s", "e", "r", "s">>
DropUsers == <<"D", "R", "O", "P", " ", "T", "A", "B", "L", "E", " ", "u", "s", "e", "r", "s">>
Queries ==
    {SelectOne, SelectUsers, SelectUpdated, ReplaceUsers, CreateUsers2,
     PragmaUsers, AttachUsers, DropUsers}

\* t.schemas: the tables of the example database
Tables == {<<"u", "s", "e", "r", "s">>, <<"o", "r", "d", "e", "r", "s">>}

\* the words validateQuery looks for
Dangerous ==
    {<<"d", "r", "o", "p">>, <<"a", "l", "t", "e", "r">>, <<"d", "e", "l", "e", "t", "e">>,
     <<"u", "p", "d", "a", "t", "e">>, <<"i", "n", "s", "e", "r", "t">>}

validateQueryNoTableCheck(query) ==
    IF \E w \in Dangerous : Contains(ToLower(query), w)
    THEN "only SELECT queries are allowed"
    ELSE ""

\* DatabaseTool.validateQuery: "" for nil
validateQuery(query) ==
    LET lowerQuery == ToLower(query) IN
    IF \E w \in Dangerous : Contains(lowerQuery, w)
    THEN "only SELECT queries are allowed"
    ELSE IF \E t \in Tables : Contains(lowerQuery, ToLower(t))
    THEN ""
    ELSE "query must reference a valid table"

\* Argument values as encoding/json decodes them: a number (float64), a
\* string, a boolean.
Num(n) == [kind |-> "number", val |-> n]
Str(t) == [kind |-> "string", val |-> t]
Bool(b) == [kind |-> "bool", val |-> b]

Digit(d) == <<"0", "1", "2", "3", "4", "5", "6", "7", "8", "9">>[d + 1]

\* fmt.Sprintf("%v", val) of a whole number
RECURSIVE Sprintv(_)
Sprintv(n) ==
    IF n < 10 THEN <<Digit(n)>> ELSE Append(Sprintv(n \div 10), Digit(n % 10))

StringifyKeys == {"limit", "interval"}

convertArgNumbersAll(k, v) ==
    IF v.kind = "number" THEN Str(Sprintv(v.val)) ELSE v

\* one pass of the loop over call.Function.Arguments
convertArg(k, v) ==
    IF v.kind = "number" /\ k \in StringifyKeys
    THEN Str(Sprintv(v.val))
    ELSE v

\* convertedArgs
convertArgs(a) == [k \in DOMAIN a |-> convertArg(k, a[k])]

\* A map with no key, and maps of one or two keys
NoArgs == [k \in {} |-> Num(0)]
Arg1(k, v) == [x \in {k} |-> v]
Arg2(k1, v1, k2, v2) == [x \in {k1, k2} |-> IF x = k1 THEN v1 ELSE v2]

\* The content items of a tools/call result: an item carrying a text, or
\* one without (an image).
TextItem(t) == [text |-> TRUE, val |-> t]
OtherItem == [text |-> FALSE, val |-> <<>>]

\* CallTool's decoding of result.content: the items with a string "text",
\* each as an mcp.TextContent value.
TextContents(items) == SelectSeq(items, LAMBDA it : it.text)

\* json.MarshalIndent of an mcp.TextContent: an object around the text
MarshalIndent(item) == <<"{", "_">> \o item.val \o <<"_", "}">>

RECURSIVE WriteItems(_, _)
WriteItems(content, i) ==
    IF i > Len(content)
    THEN <<>>
    ELSE MarshalIndent(content[i]) \o <<"_">> \o WriteItems(content, i + 1)

RECURSIVE WriteTexts(_, _)
WriteTexts(content, i) ==
    IF i > Len(content)
    THEN <<>>
    ELSE content[i].val \o <<"_">> \o WriteTexts(content, i + 1)

\* The rows db.Query yields: none, or one row of one column.
Row(col, val) == [col |-> col, val |-> val]
OneByOne == <<Row(<<"1">>, <<"1">>)>>
RowSets == {<<>>, OneByOne}

Max(a, b) == IF a > b THEN a ELSE b
Blanks(n) == [i \in 1..n |-> "_"]
Dashes(n) == [i \in 1..n |-> "-"]

\* fmt.Sprintf("%-*s  ", w, s)
PadCell(s, w) == s \o Blanks(Max(w - Len(s), 0)) \o Blanks(2)

RECURSIVE DataRows(_, _, _)
DataRows(rows, w, i) ==
    IF i > Len(rows)
    THEN <<>>
    ELSE PadCell(rows[i].val, w) \o <<"_">> \o DataRows(rows, w, i + 1)

RECURSIVE ColWidth(_, _, _)
ColWidth(rows, w, i) ==
    IF i > Len(rows) THEN w ELSE ColWidth(rows, Max(w, Len(rows[i].val)), i + 1)

Hi == <<"h", "i">>
Yo == <<"y", "o">>

\* What executing one tool yields: whether the call fails, and else the
\* content items a provider returns for it and the rows the database
\* returns for it (the one that applies depends on who owns the tool).
Outcome(fail, items, rows) == [fail |-> fail, items |-> items, rows |-> rows]
ToolFail == Outcome(TRUE, <<>>, <<>>)
ToolOutcomes ==
    {ToolFail,
     Outcome(FALSE, <<>>, <<>>),
     Outcome(FALSE, <<TextItem(Hi)>>,
             OneByOne)}

\* What a call with arguments may meet: also a result of several items,
\* one of them no text.
ArgOutcomes ==
    ToolOutcomes \cup {Outcome(FALSE, <<TextItem(Hi), OtherItem, TextItem(Yo)>>, <<>>)}

\* The arguments a model may put in a tool call.
DbArgs ==
    {Arg1("query", Str(q)) : q \in Queries}
        \cup {NoArgs, Arg1("query", Num(1))}
ProvArgs ==
    {NoArgs, Arg1("text", Str(Hi)), Arg1("limit", Num(5)),
     Arg2("interval", Num(10), "count", Num(3)),
     Arg2("limit", Str(<<"5">>), "interval", Bool(TRUE))}
CallArgs == DbArgs \cup ProvArgs

\* ... in a call of the tool named n: a statement, or none, for the tool
\* that takes a query; other keys for the others.
ArgsFor(n) == IF n = QueryDatabase THEN DbArgs ELSE ProvArgs

LookupOrBuiltIn(n) ==
    IF n \in DOMAIN toolMap
    THEN [ok |-> TRUE, mcpName |-> toolMap[n]]
    ELSE [ok |-> TRUE, mcpName |-> QueryDatabase]

\* mcpName, ok := b.toolMap[call.Function.Name]
Lookup(n) ==
    IF n \in DOMAIN toolMap
    THEN [ok |-> TRUE, mcpName |-> toolMap[n]]
    ELSE [ok |-> FALSE, mcpName |-> <<>>]

formatToolResultTexts(content) ==
    IF Len(content) = 0 THEN <<>> ELSE TrimSpace(WriteTexts(content, 1))

\* formatToolResult: every item of result.Content is an mcp.TextContent
\* struct, no map, so each is written by the default branch.
formatToolResult(content) ==
    IF Len(content) = 0 THEN <<>> ELSE TrimSpace(WriteItems(content, 1))

\* formatDatabaseResult on rows of one column: header, separator, rows
formatDatabaseResult(rows) ==
    IF Len(rows) = 0
    THEN <<>>
    ELSE LET col == rows[1].col
             w == ColWidth(rows, Len(col), 1)
         IN  PadCell(ToUpper(col), w) \o <<"_">>
             \o Dashes(w) \o Blanks(2) \o <<"_">>
             \o DataRows(rows, w, 1)

QueryArgOrEmpty(a) ==
    IF "query" \in DOMAIN a /\ a["query"].kind = "string"
    THEN [ok |-> TRUE, query |-> a["query"].val]
    ELSE [ok |-> TRUE, query |-> <<>>]

\* query, ok := call.Function.Arguments["query"].(string)
QueryArg(a) ==
    IF "query" \in DOMAIN a /\ a["query"].kind = "string"
    THEN [ok |-> TRUE, query |-> a["query"].val]
    ELSE [ok |-> FALSE, query |-> <<>>]

\* DatabaseTool.Execute: validateQuery, then db.Query, which fails or
\* yields rows; `reached` tells whether the statement got to db.Query.
Execute(query, out) ==
    IF validateQuery(query) # ""
    THEN [err |-> "invalid query", reached |-> FALSE, rows |-> <<>>]
    ELSE IF out.fail
    THEN [err |-> "failed to execute query", reached |-> TRUE, rows |-> <<>>]
    ELSE [err |-> "", reached |-> TRUE, rows |-> out.rows]

\* handleDatabaseTool: the error or the output, and the statements that
\* got to the database.
handleDatabaseTool(a, out) ==
    LET q == QueryArg(a)
        e == Execute(q.query, out)
    IN
    IF ~q.ok
    THEN [err |-> "invalid query argument", called |-> FALSE,
          output |-> <<>>, queries |-> <<>>]
    ELSE IF e.err # ""
    THEN [err |-> "database query failed", called |-> TRUE, output |-> <<>>,
          queries |-> IF e.reached THEN <<q.query>> ELSE <<>>]
    ELSE [err |-> "", called |-> TRUE,
          output |-> formatDatabaseResult(e.rows), queries |-> <<q.query>>]

HandleErrKeepingResults(e, results, ran, reqs, queries) ==
    [err |-> e, results |-> results, ran |-> ran, sent |-> reqs,
     queries |-> queries]

\* return nil, err: the results collected so far are dropped
HandleErr(e, results, ran, reqs, queries) ==
    [err |-> e, results |-> <<>>, ran |-> ran, sent |-> reqs,
     queries |-> queries]

\* handleToolCalls over calls[i..], args[i] being the arguments of call i
\* and outs[i] what executing it yields.  Returns the error or the
\* results, how many tools it ran, the tools/call requests it made (which
\* session, which tool name, which arguments) and the statements it gave
\* to the database.
RECURSIVE HandleFrom(_, _, _, _, _, _, _, _)
HandleFrom(calls, args, outs, i, results, ran, reqs, queries) ==
    IF i > Len(calls)
    THEN [err |-> "", results |-> results, ran |-> ran, sent |-> reqs,
          queries |-> queries]
    ELSE
    LET l == Lookup(calls[i])
        d == handleDatabaseTool(args[i], outs[i])
        parts == SplitN2(l.mcpName)
        req == [session |-> serverMap[parts[1]], tool |-> parts[2],
                arguments |-> convertArgs(args[i])]
    IN
    IF ~l.ok
    THEN HandleErr("unknown tool", results, ran, reqs, queries)
    ELSE IF l.mcpName = QueryDatabase
    THEN IF d.err # ""
         THEN HandleErr(d.err, results, IF d.called THEN ran + 1 ELSE ran,
                        reqs, queries \o d.queries)
         ELSE HandleFrom(calls, args, outs, i + 1, Append(results, d.output),
                         ran + 1, reqs, queries \o d.queries)
    ELSE IF Len(parts) # 2
    THEN HandleErr("invalid tool mapping", results, ran, reqs, queries)
    ELSE IF parts[1] \notin DOMAIN serverMap
    THEN HandleErr("unknown MCP server", results, ran, reqs, queries)
    ELSE IF outs[i].fail
    THEN HandleErr("tool execution failed", results, ran + 1,
                   Append(reqs, req), queries)
    ELSE HandleFrom(calls, args, outs, i + 1,
                    Append(results,
                           formatToolResult(TextContents(outs[i].items))),
                    ran + 1, Append(reqs, req), queries)

handleToolCalls(calls, args, outs) ==
    HandleFrom(calls, args, outs, 1, <<>>, 0, <<>>, <<>>)

\* Arguments every tool accepts: a query the built-in tool runs.
GoodArgs == Arg1("query", Str(SelectUsers))
DefaultArgs(calls) == [i \in 1..Len(calls) |-> GoodArgs]

\* b.toolMap[name] and b.serverMap[name] are reads: a Go map is the same
\* after a lookup, also of a key it does not hold.
AfterLookupsInserting(m, keys) ==
    [x \in DOMAIN m \cup {keys[i] : i \in 1..Len(keys)} |->
        IF x \in DOMAIN m THEN m[x] ELSE <<>>]
AfterLookups(m, keys) == m

\* ------------------------------------------- sessions and the registry

\* MCPClient.Close's steps, in the order the code takes them
CloseSteps == <<"stdin", "stdout", "kill", "wait">>
CloseStepSet == {CloseSteps[i] : i \in 1..Len(CloseSteps)}

\* A session: whether its process was started, how often Close was called
\* on it, which steps the latest Close attempted and which errors it
\* returned.
NoSession ==
    [spawned |-> FALSE, closeCalls |-> 0, attempted |-> {}, reported |-> {}]
Spawned == [NoSession EXCEPT !.spawned = TRUE]

\* the first step of Close that fails, 0 when none does
FirstFault(faults) ==
    IF \E i \in 1..Len(CloseSteps) : CloseSteps[i] \in faults
    THEN CHOOSE i \in 1..Len(CloseSteps) :
            /\ CloseSteps[i] \in faults
            /\ \A j \in 1..(i - 1) : CloseSteps[j] \notin faults
    ELSE 0

\* One set of failing steps for each step that can be the first to fail,
\* and the set with none: Close's outcome depends on the first only.
FirstFaults == {{}} \cup {{st} : st \in CloseStepSet}

MCPClientCloseAllSteps(s, faults) ==
    [s EXCEPT !.closeCalls = @ + 1,
              !.attempted = CloseStepSet,
              !.reported = faults]

\* MCPClient.Close where the steps in `faults` fail: each step returns at
\* once when it fails.
MCPClientClose(s, faults) ==
    LET k == FirstFault(faults) IN
    [s EXCEPT !.closeCalls = @ + 1,
              !.attempted = {CloseSteps[i] :
                               i \in 1..(IF k = 0 THEN Len(CloseSteps) ELSE k)},
              !.reported = IF k = 0 THEN {} ELSE {CloseSteps[k]}]

\* How NewMCPClient can end: the pipes or cmd.Start fail; the probe cannot
\* be written; respChan is closed; the probe's answer does not parse; no
\* answer within the probe's bound; or the probe is answered.
NewOutcomes ==
    {"start_failed", "send_failed", "chan_closed", "bad_response", "timeout",
     "ok"}

NewMCPClientNoCloseOnTimeout(outcome, faults) ==
    IF outcome = "start_failed"
    THEN [client |-> NoSession, handle |-> FALSE, err |-> outcome]
    ELSE IF outcome = "ok"
    THEN [client |-> Spawned, handle |-> TRUE, err |-> ""]
    ELSE IF outcome = "timeout"
    THEN [client |-> Spawned, handle |-> FALSE, err |-> outcome]
    ELSE [client |-> MCPClientClose(Spawned, faults), handle |-> FALSE,
          err |-> outcome]

\* NewMCPClient: the session it leaves behind, whether it returned a
\* handle, and its error.
NewMCPClient(outcome, faults) ==
    IF outcome = "start_failed"
    THEN [client |-> NoSession, handle |-> FALSE, err |-> outcome]
    ELSE IF outcome = "ok"
    THEN [client |-> Spawned, handle |-> TRUE, err |-> ""]
    ELSE [client |-> MCPClientClose(Spawned, faults), handle |-> FALSE,
          err |-> outcome]

NoInitErr == [stage |-> "", at |-> 0, err |-> ""]

\* sanitizeToolName has not been called
Unset == <<"unset">>
NoName == name = <<>> /\ sanitized = Unset /\ resanitized = Unset

\* The environment: KEY=value entries, a later entry of a key replacing an
\* earlier one when the process is started (os/exec keeps the last).
EnvEntry(k, v) == [key |-> k, val |-> v]

RECURSIVE EnvOfFrom(_, _, _)
EnvOfFrom(entries, i, m) ==
    IF i > Len(entries)
    THEN m
    ELSE EnvOfFrom(entries, i + 1, Put(m, entries[i].key, entries[i].val))

EnvOf(entries) == EnvOfFrom(entries, 1, NilMap)

\* env := os.Environ(); cmd.Env = append(env, "RUST_LOG=debug",
\* "RUST_BACKTRACE=1", "PYTHONUNBUFFERED=1").  NewMCPClient is given the
\* command and the arguments of the provider, not its Env.
CmdEnv(environ, overrides) ==
    environ \o <<EnvEntry("RUST_LOG", "debug"),
                 EnvEntry("RUST_BACKTRACE", "1"),
                 EnvEntry("PYTHONUNBUFFERED", "1")>>

\* What the orchestrator's own environment may hold
Environs ==
    {<<EnvEntry("PATH", "/bin")>>,
     <<EnvEntry("PATH", "/bin"), EnvEntry("API_KEY", "old")>>,
     <<EnvEntry("RUST_LOG", "info"), EnvEntry("PATH", "/bin")>>}

\* What a provider's env: section may hold
EnvOverrides ==
    {NilMap,
     Put(NilMap, "API_KEY", "secret"),
     Put(NilMap, "PATH", "/bin"),
     Put(NilMap, "RUST_LOG", "trace")}

DefaultEnviron == <<EnvEntry("PATH", "/bin")>>

\* The state New leaves: empty maps, the built-in tool alone in b.tools;
\* no process yet.
NewBridge(cfg, environ, overrides) ==
    /\ osEnv = environ
    /\ envCfg = overrides
    /\ procEnv = [i \in 1..Len(cfg) |-> NilMap]
    /\ config = cfg
    /\ initPc = "new"
    /\ idx = 0
    /\ toolMap = NilMap
    /\ serverMap = NilMap
    /\ tools = <<QueryDatabase>>
    /\ toolsSet = FALSE
    /\ llmTools = <<>>
    /\ listed = [i \in 1..Len(cfg) |-> <<>>]
    /\ sess = [i \in 1..Len(cfg) |-> NoSession]
    /\ initErr = NoInitErr
    /\ closes = 0
    /\ closeFaults = {}

\* New with a configuration that has no env: section
NewRegistry(cfg) ==
    NewBridge(cfg, DefaultEnviron, [i \in 1..Len(cfg) |-> NilMap])

\* The state a successful Initialize leaves with one provider whose
\* tools/list returned the one tool echo.
RegistryOf(server) ==
    /\ osEnv = DefaultEnviron
    /\ envCfg = <<NilMap>>
    /\ procEnv = <<EnvOf(CmdEnv(DefaultEnviron, NilMap))>>
    /\ config = <<server>>
    /\ initPc = "ok"
    /\ idx = 1
    /\ toolMap = RegisterFrom(Put(NilMap, QueryDatabase, QueryDatabase),
                              server, <<Echo>>, 1)
    /\ serverMap = Put(NilMap, server, 1)
    /\ tools = <<QueryDatabase, Echo>>
    /\ toolsSet = TRUE
    /\ llmTools = <<QueryDatabase, Echo>>
    /\ listed = <<<<Echo>>>>
    /\ sess = <<Spawned>>
    /\ initErr = NoInitErr
    /\ closes = 0
    /\ closeFaults = {}

\* ... the provider being srv
InitializedRegistry == RegistryOf(Srv)

InitBridge ==
    /\ pmPc = "idle"
    /\ attempts = 0
    /\ backoff = InitialBackoff
    /\ err = Ok
    /\ sleeps = <<>>
    /\ outcomes = <<>>
    /\ response = NoReply
    /\ lastToolResult = <<>>
    /\ recent = <<>>
    /\ rounds = 0
    /\ conts = 0
    /\ executed = 0
    /\ sent = <<>>
    /\ toolErr = ""
    /\ callArgs = <<>>
    /\ dbQueries = <<>>
    /\ toolResults = <<>>
    /\ expired = FALSE
    /\ lateWork = FALSE
    /\ ret = RetNone

\* ProcessMessage is entered: backoff := time.Second; attempts := 0
PMStart ==
    /\ UNCHANGED <<clientVars, concVars, extVars, regVars>>
    /\ pmPc \in {"idle", "done"}
    /\ pmPc' = "generate"
    /\ attempts' = 0
    /\ backoff' = InitialBackoff
    /\ err' = Ok
    /\ sleeps' = <<>>
    /\ outcomes' = <<>>
    /\ response' = NoReply
    /\ lastToolResult' = <<>>
    /\ recent' = <<>>
    /\ rounds' = 0
    /\ conts' = 0
    /\ executed' = 0
    /\ sent' = <<>>
    /\ toolErr' = ""
    /\ callArgs' = <<>>
    /\ dbQueries' = <<>>
    /\ toolResults' = <<>>
    /\ expired' = FALSE
    /\ lateWork' = FALSE
    /\ ret' = RetNone

\* One pass of the retry loop up to the sleep: generateLLMResponse, then
\* break on success, return on an error that is not retryable.
PMGenerate ==
    /\ UNCHANGED <<clientVars, concVars, extVars, regVars>>
    /\ pmPc = "generate"
    /\ \/ \E r \in ModelReplies :
            /\ response' = r
            /\ err' = Ok
            /\ outcomes' = Append(outcomes, Ok)
            /\ pmPc' = "tools"
            /\ ret' = ret
       \/ \E sh \in ErrShapes :
            LET e == GenErr(sh, attempts + 1) IN
            /\ err' = e
            /\ outcomes' = Append(outcomes, e)
            /\ response' = response
            /\ IF isRetryableError(e)
               THEN pmPc' = "backoff" /\ ret' = ret
               ELSE pmPc' = "done" /\ ret' = RetRawErr(e)
    /\ lateWork' = (lateWork \/ expired)
    /\ UNCHANGED <<attempts, backoff, sleeps, lastToolResult, recent, rounds,
                   conts, executed, dispVars, expired>>

\* time.Sleep(backoff); backoff *= 2; attempts++; and, when the loop ends
\* with err != nil, the BridgeError return.
PMSleep ==
    /\ UNCHANGED <<clientVars, concVars, extVars, regVars>>
    /\ pmPc = "backoff"
    /\ sleeps' = Sleep(sleeps, backoff, attempts)
    /\ backoff' = NextBackoff(backoff)
    /\ attempts' = attempts + 1
    /\ IF MoreAttempts(attempts + 1)
       THEN pmPc' = "generate" /\ ret' = ret
       ELSE pmPc' = "done" /\ ret' = BridgeError("process_message", err)
    /\ lateWork' = (lateWork \/ expired)
    /\ UNCHANGED <<err, outcomes, response, lastToolResult, recent, rounds,
                   conts, executed, dispVars, expired>>

\* Multi-server ProcessMessage after a successful generation: dispatch the
\* tool calls once and return the first result's output; with no tool call,
\* return the cleaned content.
PMDispatch ==
    /\ UNCHANGED <<clientVars, concVars, extVars, regRest, serverMap>>
    /\ toolMap' = AfterLookups(toolMap, response.toolCalls)
    /\ pmPc = "tools"
    /\ pmPc' = "done"
    /\ IF Len(response.toolCalls) > 0
       THEN \E outs \in [1..Len(response.toolCalls) -> ToolOutcomes] :
              \E a \in {DefaultArgs(response.toolCalls)} :
              \E h \in {handleToolCalls(response.toolCalls, a, outs)} :
              /\ rounds' = Bump(rounds)
              /\ executed' = IF executed + h.ran < MaxCount
                             THEN executed + h.ran ELSE MaxCount
              /\ recent' = IF h.err = "" THEN h.results[Len(h.results)] ELSE recent
              /\ sent' = h.sent
              /\ toolErr' = h.err
              /\ callArgs' = a
              /\ dbQueries' = h.queries
              /\ toolResults' = h.results
              /\ lateWork' = (lateWork \/ (expired /\ h.ran > 0))
              /\ ret' = IF h.err # ""
                        THEN BridgeError("handle_tools", h.err)
                        ELSE IF Len(h.results) > 0
                        THEN RetText(h.results[1])
                        ELSE RetText(CleanContent(response.content))
       ELSE /\ ret' = RetText(CleanContent(response.content))
            /\ UNCHANGED <<rounds, executed, recent, dispVars, lateWork>>
    /\ UNCHANGED <<attempts, backoff, err, sleeps, outcomes, response,
                   lastToolResult, conts, expired>>

Next ==
    \/ PMStart
    \/ PMGenerate
    \/ PMSleep
    \/ PMDispatch

Init == InitSession({}) /\ InitBridge /\ InitializedRegistry /\ NoName

Spec == Init /\ [][Next]_vars

\* The 300 s of context.WithTimeout pass while ProcessMessage is running.
\* The context it returns is dropped, so nothing in the call observes it;
\* the model request has no time limit of its own, so the 300 s can end at
\* any point of the call.
DeadlineExpires ==
    /\ pmPc \in {"generate", "backoff", "tools"}
    /\ ~expired
    /\ expired' = TRUE
    /\ UNCHANGED <<clientVars, concVars, extVars, regVars, pmPc, attempts, backoff, err, sleeps,
                   outcomes, response, lastToolResult, recent, rounds, conts,
                   executed, dispVars, lateWork, ret>>

NextDeadline ==
    \/ Next
    \/ DeadlineExpires

SpecDeadline == Init /\ [][NextDeadline]_vars

\* ------------------------------------- the continuation variant's loop
\* response.Content == "" || == "<|im_start|>" || == "<|im_end|>"
EmptyOrTag(content) == content \in {<<>>, <<"S">>, <<"E">>}

\* The text the continuation variant returns for the content and the last
\* tool result it ended with: clean, and "if content is still empty, use
\* the last tool result".
FinalText(content, last) ==
    LET c == CleanContent(content)
    IN  IF c = <<>> /\ last # <<>> THEN last ELSE c

\* for len(response.ToolCalls) > 0 { handleToolCalls; lastToolResult = ... }
\* up to the continuation request; with no tool call, the final return.
PMDispatchCont ==
    /\ UNCHANGED <<clientVars, concVars, extVars, regRest, serverMap>>
    /\ toolMap' = AfterLookups(toolMap, response.toolCalls)
    /\ pmPc = "tools"
    /\ IF Len(response.toolCalls) > 0
       THEN \E outs \in [1..Len(response.toolCalls) -> ToolOutcomes] :
              \E a \in {DefaultArgs(response.toolCalls)} :
              \E h \in {handleToolCalls(response.toolCalls, a, outs)} :
              /\ rounds' = Bump(rounds)
              /\ executed' = IF executed + h.ran < MaxCount
                             THEN executed + h.ran ELSE MaxCount
              /\ recent' = IF h.err = "" THEN h.results[Len(h.results)] ELSE recent
              /\ sent' = h.sent
              /\ toolErr' = h.err
              /\ callArgs' = a
              /\ dbQueries' = h.queries
              /\ toolResults' = h.results
              /\ lateWork' = (lateWork \/ (expired /\ h.ran > 0))
              /\ IF h.err # ""
                 THEN /\ pmPc' = "done"
                      /\ ret' = BridgeError("handle_tools", h.err)
                      /\ UNCHANGED lastToolResult
                 ELSE /\ pmPc' = "continue"
                      /\ lastToolResult' = IF Len(h.results) > 0
                                           THEN h.results[1] ELSE lastToolResult
                      /\ ret' = ret
       ELSE /\ pmPc' = "done"
            /\ ret' = RetText(FinalText(response.content, lastToolResult))
            /\ UNCHANGED <<rounds, executed, recent, lastToolResult, dispVars,
                           lateWork>>
    /\ UNCHANGED <<attempts, backoff, err, sleeps, outcomes, response, conts,
                   expired>>

\* generateLLMResponseWithTools(toolResults) and the rest of the loop body.
\* `response` keeps the model's own reply; the code's overwrite of
\* response.Content by lastToolResult is applied where the text is returned.
PMContinue ==
    /\ UNCHANGED <<clientVars, concVars, extVars, regVars>>
    /\ pmPc = "continue"
    /\ conts' = Bump(conts)
    /\ \/ \E sh \in ErrShapes :
            /\ pmPc' = "done"
            /\ ret' = BridgeError("continue_with_tools", GenErr(sh, 0))
            /\ response' = response
       \/ \E r \in ModelReplies :
            /\ response' = r
            /\ IF EmptyOrTag(r.content)
               THEN /\ pmPc' = "done"          \* response.Content = lastToolResult; break
                    /\ ret' = RetText(FinalText(lastToolResult, lastToolResult))
               ELSE IF Len(r.toolCalls) > 0
               THEN /\ pmPc' = "tools"
                    /\ ret' = ret
               ELSE /\ pmPc' = "done"
                    /\ ret' = RetText(FinalText(r.content, lastToolResult))
    /\ lateWork' = (lateWork \/ expired)
    /\ UNCHANGED <<attempts, backoff, err, sleeps, outcomes, lastToolResult,
                   recent, rounds, executed, dispVars, expired>>

NextCont ==
    \/ PMStart
    \/ PMGenerate
    \/ PMSleep
    \/ PMDispatchCont
    \/ PMContinue

SpecCont == Init /\ [][NextCont]_vars

\* Every step of a ProcessMessage call that can be taken is taken: the model
\* endpoint answers, the tools answer or time out, the sleep ends.
LiveSpecCont == SpecCont /\ WF_vars(NextCont)

\* ============================================ provider session, two views
NextClient ==
    \/ \E c \in Callers : CallBuild(c)
    \/ \E c \in Callers : CallIncLoad(c)
    \/ \E c \in Callers : CallIncStore(c)
    \/ \E c \in Callers : SendRequest(c)
    \/ \E c \in Callers : CallRecv(c)
    \/ \E c \in Callers : CallChanClosed(c)
    \/ \E c \in Callers : CallTimeout(c)
    \/ ReaderRead
    \/ ReaderForward
    \/ ReaderEOF
    \/ ProviderAnswer
    \/ ProviderExit

\* Concurrent callers on one session whose provider prints answers only.
InitClient ==
    InitSession(Callers) /\ InitBridge /\ InitializedRegistry /\ NoName

SpecClient == InitClient /\ [][NextClient]_vars

\* One caller on a session whose provider also prints banners and
\* notifications.
NextReader ==
    \/ NextClient
    \/ ProviderNoise

InitReader ==
    InitSession({1}) /\ InitBridge /\ InitializedRegistry /\ NoName

SpecReader == InitReader /\ [][NextReader]_vars

\* The reader goroutine runs whenever it can: it reads a line that is
\* there, and completes its channel send when the buffer has room.
\* Nothing is assumed of the callers or of the provider.
FairReader ==
    /\ WF_vars(ReaderRead)
    /\ WF_vars(ReaderForward)
    /\ WF_vars(ReaderEOF)

LiveSpecReader == SpecReader /\ FairReader

\* =========================================== Bridge.Initialize and Close
\* The configurations: one provider at least (config.validate), each under
\* its own name (the name is the providers' key).
Distinct(c) == \A i, j \in 1..Len(c) : i # j => c[i] # c[j]
Configs ==
    {c \in SeqsUpTo(ProviderNames, MaxProviders) : Len(c) > 0 /\ Distinct(c)}

\* The errors of a call on a session
CallErrs == {TimeoutErr.kind, ClosedErr.kind, SendErr.kind}

sanVars == <<name, sanitized, resanitized>>

FailFastSkip(i, n) ==
    IF i < n
    THEN [pc |-> "spawn", idx |-> i + 1]
    ELSE [pc |-> "settools", idx |-> i]

\* `return fmt.Errorf(...)` inside Initialize's loop
FailFast(i, n) == [pc |-> "failed", idx |-> i]

CloseAllSoFar(ss, i, faults) ==
    [j \in DOMAIN ss |->
        IF j <= i THEN MCPClientClose(ss[j], faults) ELSE ss[j]]

\* client.Close() on the client whose handshake or listing failed; the
\* clients of the providers before it are not touched
CloseFailed(ss, i, faults) == [ss EXCEPT ![i] = MCPClientClose(@, faults)]

InitFails(stage, e) ==
    LET n == FailFast(idx, Len(config)) IN
    /\ initErr' = [stage |-> stage, at |-> idx, err |-> e]
    /\ initPc' = n.pc
    /\ idx' = n.idx

\* Initialize up to its loop: the built-in tool is registered.
InitializeStart ==
    /\ initPc = "new"
    /\ toolMap' = Put(toolMap, QueryDatabase, QueryDatabase)
    /\ idx' = 1
    /\ initPc' = "spawn"
    /\ UNCHANGED <<clientVars, concVars, extVars, pmVars, config, serverMap, tools, toolsSet,
                   llmTools, listed, sess, initErr, closes, closeFaults,
                   sanVars>>

\* client, err := NewMCPClient(...)
InitSpawn ==
    /\ initPc = "spawn"
    /\ \E o \in NewOutcomes, f \in SUBSET CloseStepSet :
         LET r == NewMCPClient(o, f) IN
         /\ sess' = [sess EXCEPT ![idx] = r.client]
         /\ procEnv' = IF r.client.spawned
                       THEN [procEnv EXCEPT
                               ![idx] = EnvOf(CmdEnv(osEnv, envCfg[idx]))]
                       ELSE procEnv
         /\ closeFaults' = IF r.client.closeCalls > 0 THEN f ELSE closeFaults
         /\ IF r.handle
            THEN initPc' = "handshake" /\ UNCHANGED <<idx, initErr>>
            ELSE InitFails("create", r.err)
    /\ UNCHANGED <<clientVars, concVars, osEnv, envCfg, startVars, lockVars,
                   pmVars, config, toolMap, serverMap, tools, toolsSet,
                   llmTools, listed, closes, sanVars>>

\* client.Initialize(...), and client.Close() when it fails
InitHandshake ==
    /\ initPc = "handshake"
    /\ \/ /\ initPc' = "list"
          /\ UNCHANGED <<idx, initErr, sess>>
       \/ \E e \in CallErrs, f \in SUBSET CloseStepSet :
          /\ sess' = CloseFailed(sess, idx, f)
          /\ InitFails("initialize", e)
    /\ UNCHANGED <<clientVars, concVars, extVars, pmVars, config, toolMap, serverMap, tools,
                   toolsSet, llmTools, listed, closes, closeFaults, sanVars>>

\* client.ListTools(...), client.Close() when it fails; else the loop over
\* the tools, b.serverMap[serverCfg.Name] = client, and the next provider.
InitList ==
    /\ initPc = "list"
    /\ \/ \E l \in Listings :
          /\ toolMap' = RegisterFrom(toolMap, config[idx], l, 1)
          /\ tools' = tools \o l
          /\ listed' = [listed EXCEPT ![idx] = l]
          /\ serverMap' = Put(serverMap, config[idx], idx)
          /\ IF idx < Len(config)
             THEN idx' = idx + 1 /\ initPc' = "spawn"
             ELSE idx' = idx /\ initPc' = "settools"
          /\ UNCHANGED <<initErr, sess>>
       \/ \E e \in CallErrs, f \in SUBSET CloseStepSet :
          /\ sess' = CloseFailed(sess, idx, f)
          /\ InitFails("list", e)
          /\ UNCHANGED <<toolMap, tools, listed, serverMap>>
    /\ UNCHANGED <<clientVars, concVars, extVars, pmVars, config, toolsSet, llmTools, closes,
                   closeFaults, sanVars>>

\* b.llmClient.SetTools(b.tools); return nil
InitSetTools ==
    /\ initPc = "settools"
    /\ llmTools' = tools
    /\ toolsSet' = TRUE
    /\ initPc' = "ok"
    /\ UNCHANGED <<clientVars, concVars, extVars, pmVars, config, idx, toolMap, serverMap, tools,
                   listed, sess, initErr, closes, closeFaults, sanVars>>

ServerMapAfterCloseKept(m) == m

\* b.serverMap = nil
ServerMapAfterClose(m) == NilMap

\* Bridge.Close, once Initialize has returned: client.Close() on every
\* entry of serverMap, then the maps and b.tools are dropped.
BridgeClose ==
    /\ initPc \in {"ok", "failed"}
    /\ closes < MaxCloses
    /\ \E f \in [DOMAIN serverMap -> FirstFaults] :
         sess' = [i \in DOMAIN sess |->
                    IF \E n \in DOMAIN serverMap : serverMap[n] = i
                    THEN MCPClientClose(sess[i],
                           f[CHOOSE n \in DOMAIN serverMap : serverMap[n] = i])
                    ELSE sess[i]]
    /\ serverMap' = ServerMapAfterClose(serverMap)
    /\ toolMap' = NilMap
    /\ tools' = <<>>
    /\ closes' = closes + 1
    /\ UNCHANGED <<clientVars, concVars, extVars, pmVars, config, initPc, idx, toolsSet, llmTools,
                   listed, initErr, closeFaults, sanVars>>

NextInit ==
    \/ InitializeStart
    \/ InitSpawn
    \/ InitHandshake
    \/ InitList
    \/ InitSetTools
    \/ BridgeClose

InitInit ==
    /\ InitSession({})
    /\ InitBridge
    /\ \E c \in Configs : NewRegistry(c)
    /\ NoName

SpecInit == InitInit /\ [][NextInit]_vars

\* Initialize and Close of an orchestrator with one provider, over what
\* its own environment holds and what the provider's env: section says.
InitEnv ==
    /\ InitSession({})
    /\ InitBridge
    /\ \E c \in {c \in Configs : Len(c) = 1} :
       \E environ \in Environs :
       \E overrides \in [1..Len(c) -> EnvOverrides] :
          NewBridge(c, environ, overrides)
    /\ NoName

SpecEnv == InitEnv /\ [][NextInit]_vars

\* ----------------------------------- Initialize, one request at a time
\* The same loop of Initialize with the three requests of a session's
\* startup taken apart: the id is read and nextID incremented, the request
\* is written, the provider answers, readResponses forwards the answer and
\* the select of the requesting function takes it from respChan.

\* The method of the request each stage sends: the probe of NewMCPClient,
\* MCPClient.Initialize, MCPClient.ListTools
StageMethod ==
    [spawn |-> "tools/list", handshake |-> "initialize", list |-> "tools/list"]

\* The stage as Initialize's error names it
StageName == [spawn |-> "create", handshake |-> "initialize", list |-> "list"]

StartupStages == DOMAIN StageMethod

Wrote(method, id) == [ev |-> "write", method |-> method, id |-> id]
Consumed(id) == [ev |-> "read", method |-> "", id |-> id]
ToolsRegistered == [ev |-> "register", method |-> "", id |-> 0]

IDAfterReused(n) == n

\* client.nextID++ / c.nextID++
IDAfter(n) == n + 1

\* exec.Command(...).Start() and the MCPClient built around the process:
\* nextID: 1, an empty respChan, the reader goroutine started
StartProcess ==
    /\ initPc = "spawn"
    /\ suStep = "write"
    /\ ~sess[idx].spawned
    /\ \/ /\ sess' = [sess EXCEPT ![idx] = Spawned]
          /\ procEnv' = [procEnv EXCEPT
                           ![idx] = EnvOf(CmdEnv(osEnv, envCfg[idx]))]
          /\ suNextID' = 1
          /\ suPending' = <<>>
          /\ suChan' = <<>>
          /\ UNCHANGED <<initPc, idx, initErr>>
       \/ /\ InitFails("create", "start_failed")
          /\ UNCHANGED <<sess, procEnv, suNextID, suPending, suChan>>
    /\ UNCHANGED <<clientVars, concVars, pmVars, osEnv, envCfg, lockVars,
                   config, toolMap, serverMap, tools, toolsSet, llmTools,
                   listed, closes, closeFaults, sanVars, suStep, suLog>>

\* The request of the stage: "id": nextID, nextID++, sendRequest; when the
\* write fails the client is closed and Initialize returns.
StartWrite ==
    /\ initPc \in StartupStages
    /\ suStep = "write"
    /\ sess[idx].spawned
    /\ suNextID' = IDAfter(suNextID)
    /\ \/ /\ suLog' = [suLog EXCEPT
                         ![idx] = Append(@, Wrote(StageMethod[initPc], suNextID))]
          /\ suPending' = Append(suPending, suNextID)
          /\ suStep' = "wait"
          /\ UNCHANGED <<initPc, idx, initErr, sess>>
       \/ \E f \in SUBSET CloseStepSet :
          /\ sess' = CloseFailed(sess, idx, f)
          /\ InitFails(StageName[initPc], SendErr.kind)
          /\ UNCHANGED <<suLog, suPending, suStep>>
    /\ UNCHANGED <<clientVars, concVars, pmVars, envVars, lockVars, config,
                   toolMap, serverMap, tools, toolsSet, llmTools, listed,
                   closes, closeFaults, sanVars, suChan>>

\* The provider answers the oldest request it has read, with a result or
\* with an error; readResponses forwards the line that has a result to
\* respChan and drops the other.
StartAnswer ==
    /\ initPc \in StartupStages
    /\ suPending # <<>>
    /\ Len(suChan) < RespChanCap
    /\ suPending' = Tail(suPending)
    /\ \E k \in AnswerKinds :
         suChan' = IF k = "result" THEN Append(suChan, Head(suPending))
                   ELSE suChan
    /\ UNCHANGED <<clientVars, concVars, pmVars, envVars, lockVars, regVars,
                   suStep, suNextID, suLog>>

\* case respBytes, ok := <-c.respChan: the stage is over; after the third
\* the tools are registered.
StartRecv ==
    /\ initPc \in StartupStages
    /\ suStep = "wait"
    /\ suChan # <<>>
    /\ suChan' = Tail(suChan)
    /\ suLog' = [suLog EXCEPT ![idx] = Append(@, Consumed(Head(suChan)))]
    /\ initPc' = CASE initPc = "spawn" -> "handshake"
                   [] initPc = "handshake" -> "list"
                   [] OTHER -> "list"
    /\ suStep' = IF initPc = "list" THEN "register" ELSE "write"
    /\ UNCHANGED <<clientVars, concVars, pmVars, envVars, lockVars, config,
                   idx, toolMap, serverMap, tools, toolsSet, llmTools,
                   listed, sess, initErr, closes, closeFaults, sanVars,
                   suNextID, suPending>>

\* case <-time.After(...): the client is closed and Initialize returns
StartTimeout ==
    /\ initPc \in StartupStages
    /\ suStep = "wait"
    /\ suChan = <<>>
    /\ \E f \in SUBSET CloseStepSet :
         sess' = CloseFailed(sess, idx, f)
    /\ InitFails(StageName[initPc], TimeoutErr.kind)
    /\ UNCHANGED <<clientVars, concVars, pmVars, envVars, lockVars, config,
                   toolMap, serverMap, tools, toolsSet, llmTools, listed,
                   closes, closeFaults, sanVars, startVars>>

\* The loop over toolsResult.Tools, b.serverMap[serverCfg.Name] = client,
\* and the next provider.
StartRegister ==
    /\ initPc = "list"
    /\ suStep = "register"
    /\ \E l \in Listings :
         /\ toolMap' = RegisterFrom(toolMap, config[idx], l, 1)
         /\ tools' = tools \o l
         /\ listed' = [listed EXCEPT ![idx] = l]
    /\ serverMap' = Put(serverMap, config[idx], idx)
    /\ suLog' = [suLog EXCEPT ![idx] = Append(@, ToolsRegistered)]
    /\ suStep' = "write"
    /\ IF idx < Len(config)
       THEN idx' = idx + 1 /\ initPc' = "spawn"
       ELSE idx' = idx /\ initPc' = "settools"
    /\ UNCHANGED <<clientVars, concVars, pmVars, envVars, lockVars, config,
                   toolsSet, llmTools, sess, initErr, closes, closeFaults,
                   sanVars, suNextID, suPending, suChan>>

NextStartup ==
    \/ InitializeStart
    \/ StartProcess
    \/ StartWrite
    \/ StartAnswer
    \/ StartRecv
    \/ StartTimeout
    \/ StartRegister
    \/ InitSetTools

SpecStartup == InitInit /\ [][NextStartup]_vars

\* ----------------------------------- handleToolCalls on a built registry

\* handleToolCalls as ProcessMessage calls it, on a reply with tool calls
HandleToolCalls ==
    /\ initPc = "ok"
    /\ \E calls \in SeqsUpTo(ToolNames, MaxToolCalls) \ {<<>>} :
       \E outs \in [1..Len(calls) -> ToolOutcomes] :
         \E a \in {DefaultArgs(calls)} :
         \E h \in {handleToolCalls(calls, a, outs)} :
         /\ response' = [content |-> <<>>, toolCalls |-> calls]
         /\ sent' = h.sent
         /\ toolErr' = h.err
         /\ callArgs' = a
         /\ dbQueries' = h.queries
         /\ toolResults' = h.results
         /\ toolMap' = AfterLookups(toolMap, calls)
    /\ UNCHANGED <<clientVars, concVars, extVars, regRest, serverMap, pmPc, attempts, backoff,
                   err, sleeps, outcomes, lastToolResult, recent, rounds,
                   conts, executed, expired, lateWork, ret>>

NextDispatch ==
    \/ InitializeStart
    \/ InitSpawn
    \/ InitHandshake
    \/ InitList
    \/ InitSetTools
    \/ HandleToolCalls

SpecDispatch == InitInit /\ [][NextDispatch]_vars

\* ------------------------------------ Bridge.Close while a call waits

\* Bridge.Close from another goroutine while calls on the session of srv
\* are under way: b.cancel(), which no call observes (CallTool ignores its
\* context and the process is started without one), then client.Close(),
\* whose steps in f fail, then the maps are dropped.  c.stdout.Close()
\* ends the stream readResponses reads from, with what was unread.
BridgeCloseInFlight ==
    /\ initPc = "ok"
    /\ closes = 0
    /\ \E f \in SUBSET CloseStepSet :
         LET s == MCPClientClose(sess[1], f) IN
         /\ sess' = [sess EXCEPT ![1] = s]
         /\ closeFaults' = f
         /\ IF "stdout" \in s.attempted \ s.reported
            THEN providerUp' = FALSE /\ stdout' = <<>>
            ELSE UNCHANGED <<providerUp, stdout>>
    /\ serverMap' = ServerMapAfterClose(serverMap)
    /\ toolMap' = NilMap
    /\ tools' = <<>>
    /\ closes' = closes + 1
    /\ UNCHANGED <<pmVars, concVars, extVars, config, initPc, idx, toolsSet, llmTools,
                   listed,
                   initErr, sanVars, nextID, wire, provRead, noise,
                   readerVars, respChan, chanClosed, pc, callerRegs>>

\* CallTool is reached through serverMap (handleToolCalls finds the
\* session there), so no call starts once Close has dropped the map.
NextCloseWait ==
    \/ \E c \in Callers : Srv \in DOMAIN serverMap /\ CallBuild(c)
    \/ \E c \in Callers : CallIncLoad(c)
    \/ \E c \in Callers : CallIncStore(c)
    \/ \E c \in Callers : SendRequest(c)
    \/ \E c \in Callers : CallRecv(c)
    \/ \E c \in Callers : CallChanClosed(c)
    \/ \E c \in Callers : CallTimeout(c)
    \/ ReaderRead
    \/ ReaderForward
    \/ ReaderEOF
    \/ ProviderAnswer
    \/ ProviderExit
    \/ BridgeCloseInFlight

\* What the program itself does is done: the reader goroutine reads and
\* forwards, a waiting select takes what respChan offers.  Nothing is
\* assumed of the provider's answers or of the 10 s timer.
FairCloseWait ==
    /\ WF_vars(ReaderRead)
    /\ WF_vars(ReaderForward)
    /\ WF_vars(ReaderEOF)
    /\ \A c \in Callers : WF_vars(CallRecv(c))
    /\ \A c \in Callers : WF_vars(CallChanClosed(c))

SpecCloseWait == InitReader /\ [][NextCloseWait]_vars /\ FairCloseWait

\* -------------------------- concurrent handleToolCalls, several sessions

\* The holders of b.mu's read lock once caller c has left the lookup
LocksAfterLookupDeferred(held, c) == held
LocksAfterLookup(held, c) == held \ {c}

\* mcpName, ok := b.toolMap[...]; SplitN: the call is for a tool of
\* session s.  No lock is taken for this.
HLookup(c) ==
    /\ hPc[c] = "idle"
    /\ \E s \in Sessions : hTarget' = [hTarget EXCEPT ![c] = s]
    /\ hPc' = [hPc EXCEPT ![c] = "rlock"]
    /\ UNCHANGED <<clientVars, pmVars, regVars, extVars, hGot, readers, pending, inbox>>

\* b.mu.RLock(): a read lock, which other readers do not exclude
HRLock(c) ==
    /\ hPc[c] = "rlock"
    /\ readers' = readers \cup {c}
    /\ hPc' = [hPc EXCEPT ![c] = "locked"]
    /\ UNCHANGED <<clientVars, pmVars, regVars, extVars, hTarget, hGot, pending, inbox>>

\* client, ok := b.serverMap[serverName]; b.mu.RUnlock()
HRUnlock(c) ==
    /\ hPc[c] = "locked"
    /\ readers' = LocksAfterLookup(readers, c)
    /\ hPc' = [hPc EXCEPT ![c] = "send"]
    /\ UNCHANGED <<clientVars, pmVars, regVars, extVars, hTarget, hGot, pending, inbox>>

\* client.CallTool: sendRequest, under the session's own mutex
HSend(c) ==
    /\ hPc[c] = "send"
    /\ pending' = [pending EXCEPT ![hTarget[c]] = @ + 1]
    /\ hPc' = [hPc EXCEPT ![c] = "wait"]
    /\ UNCHANGED <<clientVars, pmVars, regVars, extVars, hTarget, hGot, readers, inbox>>

\* The provider of session s answers a request; readResponses puts the
\* answer on the session's respChan.
HAnswer(s) ==
    /\ pending[s] > 0
    /\ pending' = [pending EXCEPT ![s] = @ - 1]
    /\ inbox' = [inbox EXCEPT ![s] = @ + 1]
    /\ UNCHANGED <<clientVars, pmVars, regVars, extVars, hPc, hTarget, hGot, readers>>

\* CallTool's select: an answer on the session's respChan
HRecv(c) ==
    /\ hPc[c] = "wait"
    /\ inbox[hTarget[c]] > 0
    /\ inbox' = [inbox EXCEPT ![hTarget[c]] = @ - 1]
    /\ hGot' = [hGot EXCEPT ![c] = "result"]
    /\ hPc' = [hPc EXCEPT ![c] = "done"]
    /\ UNCHANGED <<clientVars, pmVars, regVars, extVars, hTarget, readers, pending>>

\* CallTool's select: time.After(10 * time.Second)
HTimeout(c) ==
    /\ hPc[c] = "wait"
    /\ hGot' = [hGot EXCEPT ![c] = "timeout"]
    /\ hPc' = [hPc EXCEPT ![c] = "done"]
    /\ UNCHANGED <<clientVars, pmVars, regVars, extVars, hTarget, readers, pending,
                   inbox>>

NextConc ==
    \/ \E c \in Callers : HLookup(c)
    \/ \E c \in Callers : HRLock(c)
    \/ \E c \in Callers : HRUnlock(c)
    \/ \E c \in Callers : HSend(c)
    \/ \E s \in Sessions : HAnswer(s)
    \/ \E c \in Callers : HRecv(c)
    \/ \E c \in Callers : HTimeout(c)

\* Concurrent ProcessMessage calls (one per HTTP request), each with one
\* provider-backed tool call to dispatch.
SpecConc == Init /\ [][NextConc]_vars

\* ------------------------- handleToolCalls while Bridge.Close is running
\* handleToolCalls with its two reads of the registry, for a call of the
\* provider tool echo, and Close statement by statement.

Access(by, var, op) == [by |-> by, var |-> var, op |-> op]

\* The accesses made so far without b.mu, after one more by a goroutine
\* that holds the lock (held) or does not
Accessed(log, held, a) == IF held THEN log ELSE log \cup {a}

\* mcpName, ok := b.toolMap[call.Function.Name]; return when !ok.  No
\* lock is taken for this read.
LkToolMapRead(c) ==
    /\ hPc[c] = "idle"
    /\ unlocked' = Accessed(unlocked, c \in readers,
                            Access("handleToolCalls", "toolMap", "read"))
    /\ IF Echo \in DOMAIN toolMap
       THEN hPc' = [hPc EXCEPT ![c] = "rlock"] /\ hGot' = hGot
       ELSE /\ hPc' = [hPc EXCEPT ![c] = "done"]
            /\ hGot' = [hGot EXCEPT ![c] = "unknown tool"]
    /\ UNCHANGED <<clientVars, pmVars, regVars, envVars, startVars, writer,
                   closePc, hTarget, readers, pending, inbox>>

\* b.mu.RLock(): waits while Close holds the write lock
LkRLock(c) ==
    /\ hPc[c] = "rlock"
    /\ ~writer
    /\ readers' = readers \cup {c}
    /\ hPc' = [hPc EXCEPT ![c] = "locked"]
    /\ UNCHANGED <<clientVars, pmVars, regVars, extVars, hTarget, hGot,
                   pending, inbox>>

\* client, ok := b.serverMap[serverName]; b.mu.RUnlock(); return when !ok
LkServerMapRead(c) ==
    /\ hPc[c] = "locked"
    /\ unlocked' = Accessed(unlocked, c \in readers,
                            Access("handleToolCalls", "serverMap", "read"))
    /\ readers' = LocksAfterLookup(readers, c)
    /\ IF Srv \in DOMAIN serverMap
       THEN /\ hTarget' = [hTarget EXCEPT ![c] = serverMap[Srv]]
            /\ hPc' = [hPc EXCEPT ![c] = "send"]
            /\ hGot' = hGot
       ELSE /\ hGot' = [hGot EXCEPT ![c] = "unknown MCP server"]
            /\ hPc' = [hPc EXCEPT ![c] = "done"]
            /\ hTarget' = hTarget
    /\ UNCHANGED <<clientVars, pmVars, regVars, envVars, startVars, writer,
                   closePc, pending, inbox>>

\* Close is entered: b.cancel(), b.dbTool.Close()
CloseBegin ==
    /\ closePc = "idle"
    /\ closePc' = "lock"
    /\ UNCHANGED <<clientVars, pmVars, regVars, concVars, envVars, startVars,
                   writer, unlocked>>

\* b.mu.Lock(): waits for the readers and for another writer
CloseLock ==
    /\ closePc = "lock"
    /\ readers = {}
    /\ ~writer
    /\ writer' = TRUE
    /\ closePc' = "locked"
    /\ UNCHANGED <<clientVars, pmVars, regVars, concVars, envVars, startVars,
                   unlocked>>

\* client.Close() on every entry of serverMap; b.serverMap = nil
CloseSessions ==
    /\ closePc = "locked"
    /\ unlocked' = Accessed(unlocked, writer,
                            Access("Close", "serverMap", "write"))
    /\ \E f \in [DOMAIN serverMap -> FirstFaults] :
         sess' = [i \in DOMAIN sess |->
                    IF \E n \in DOMAIN serverMap : serverMap[n] = i
                    THEN MCPClientClose(sess[i],
                           f[CHOOSE n \in DOMAIN serverMap : serverMap[n] = i])
                    ELSE sess[i]]
    /\ serverMap' = ServerMapAfterClose(serverMap)
    /\ closePc' = "unlock"
    /\ UNCHANGED <<clientVars, pmVars, concVars, envVars, startVars, writer,
                   config, initPc, idx, toolMap, tools, toolsSet, llmTools,
                   listed, initErr, closes, closeFaults, sanVars>>

\* b.mu.Unlock()
CloseUnlock ==
    /\ closePc = "unlock"
    /\ writer' = FALSE
    /\ closePc' = "drop"
    /\ UNCHANGED <<clientVars, pmVars, regVars, concVars, envVars, startVars,
                   unlocked>>

\* b.toolMap = nil; b.tools = nil; return
CloseDrop ==
    /\ closePc = "drop"
    /\ unlocked' = Accessed(unlocked, writer,
                            Access("Close", "toolMap", "write"))
    /\ toolMap' = NilMap
    /\ tools' = <<>>
    /\ closes' = closes + 1
    /\ closePc' = "done"
    /\ UNCHANGED <<clientVars, pmVars, concVars, envVars, startVars, writer,
                   config, initPc, idx, serverMap, toolsSet, llmTools,
                   listed, sess, initErr, closeFaults, sanVars>>

NextLock ==
    \/ \E c \in Callers : LkToolMapRead(c)
    \/ \E c \in Callers : LkRLock(c)
    \/ \E c \in Callers : LkServerMapRead(c)
    \/ \E c \in Callers : HSend(c)
    \/ \E s \in Sessions : HAnswer(s)
    \/ \E c \in Callers : HRecv(c)
    \/ \E c \in Callers : HTimeout(c)
    \/ CloseBegin
    \/ CloseLock
    \/ CloseSessions
    \/ CloseUnlock
    \/ CloseDrop

\* Concurrent handleToolCalls of a call of echo, and one Close (the
\* deferred Close of the interactive loop, a shutdown of the server)
SpecLock == Init /\ [][NextLock]_vars

\* ------------------------------- handleToolCalls on calls with arguments

\* handleToolCalls on the tool calls of one reply, each with the arguments
\* the model gave it
HandleCallsWithArgs ==
    /\ rounds = 0
    /\ rounds' = 1
    /\ \E calls \in SeqsUpTo({QueryDatabase, Echo}, MaxToolCalls) \ {<<>>} :
       \E a \in {f \in [1..Len(calls) -> CallArgs] :
                    \A i \in 1..Len(calls) : f[i] \in ArgsFor(calls[i])} :
       \E outs \in [1..Len(calls) -> ArgOutcomes] :
       \E h \in {handleToolCalls(calls, a, outs)} :
         /\ response' = [content |-> <<>>, toolCalls |-> calls]
         /\ sent' = h.sent
         /\ toolErr' = h.err
         /\ callArgs' = a
         /\ dbQueries' = h.queries
         /\ toolResults' = h.results
         /\ executed' = h.ran
         /\ toolMap' = AfterLookups(toolMap, calls)
    /\ UNCHANGED <<clientVars, concVars, extVars, regRest, serverMap, pmPc, attempts, backoff,
                   err, sleeps, outcomes, lastToolResult, recent, conts,
                   expired, lateWork, ret>>

NextArgs == HandleCallsWithArgs

\* An initialized orchestrator with one provider, named srv or team/prices
InitArgs ==
    /\ InitSession({})
    /\ InitBridge
    /\ \E server \in {Srv, TeamPrices} : RegistryOf(server)
    /\ NoName

SpecArgs == InitArgs /\ [][NextArgs]_vars

\* ------------------------------------------------- one session's Close

\* MCPClient.Close on a session whose handle NewMCPClient returned
SessionClose ==
    /\ initPc = "handshake"
    /\ sess[idx].closeCalls < MaxCloses
    /\ \E f \in SUBSET CloseStepSet :
         /\ sess' = [sess EXCEPT ![idx] = MCPClientClose(@, f)]
         /\ closeFaults' = f
    /\ UNCHANGED <<clientVars, concVars, extVars, pmVars, config, initPc, idx, toolMap, serverMap,
                   tools, toolsSet, llmTools, listed, initErr, closes,
                   sanVars>>

NextSession ==
    \/ InitializeStart
    \/ InitSpawn
    \/ SessionClose

InitSessionClose ==
    /\ InitSession({})
    /\ InitBridge
    /\ \E c \in Configs : Len(c) = 1 /\ NewRegistry(c)
    /\ NoName

SpecSession == InitSessionClose /\ [][NextSession]_vars

\* ---------------------------------------------------- sanitizeToolName

Chars == {"a", "-", " ", "_", "/"}
Names == SeqsUpTo(Chars, MaxNameLen)

\* sanitizedName := sanitizeToolName(tool.Name)
Sanitize ==
    /\ sanitized = Unset
    /\ sanitized' = sanitizeToolName(name)
    /\ UNCHANGED <<clientVars, concVars, extVars, pmVars, config, initPc, idx, toolMap, serverMap,
                   tools, toolsSet, llmTools, listed, sess, initErr, closes,
                   closeFaults, name, resanitized>>

\* the sanitized name is sanitized again (convertTools on a name that
\* already went through sanitizeToolName)
Resanitize ==
    /\ sanitized # Unset
    /\ resanitized = Unset
    /\ resanitized' = sanitizeToolName(sanitized)
    /\ UNCHANGED <<clientVars, concVars, extVars, pmVars, config, initPc, idx, toolMap, serverMap,
                   tools, toolsSet, llmTools, listed, sess, initErr, closes,
                   closeFaults, name, sanitized>>

NextSanitize ==
    \/ Sanitize
    \/ Resanitize

InitSanitize ==
    /\ InitSession({})
    /\ InitBridge
    /\ NewRegistry(<<Srv>>)
    /\ name \in Names
    /\ sanitized = Unset
    /\ resanitized = Unset

SpecSanitize == InitSanitize /\ [][NextSanitize]_vars

\* ================================================================ claims
Waiting == {c \in Callers : pc[c] = "wait"}

\* C1: on one session at most one request is outstanding: no request is
\* written while another caller still waits for the answer to its own.
C1_AtMostOneOutstanding == Cardinality(Waiting) <= 1

\* C2: a call returns the response to its own request, never the response
\* the provider produced for another call.
C2_OwnResponse ==
    \A c \in Callers : got[c].kind = "line" => got[c].for = mySeq[c]

\* C3: a line that parses and carries a result payload or an error payload
\* is treated as a response: the reader never drops it.
C3_PayloadIsDelivered ==
    discarded.kind = "line" =>
        ~(discarded.json /\ (discarded.result \/ discarded.error))

IsNotification(l) == l.method # "none" /\ ~l.result /\ ~l.error
Deliverable(l) == l.json /\ ~IsNotification(l)

\* C4: a line that is not JSON, and a notification (a method field and no
\* result/error payload), is never put on the response channel and never
\* returned to a caller.
C4_OnlyResponsesForwarded ==
    /\ \A i \in 1..Len(respChan) : Deliverable(respChan[i])
    /\ readerLine.kind = "line" => Deliverable(readerLine)
    /\ \A c \in Callers : got[c].kind = "line" => Deliverable(got[c])

\* C4's case: the reader has dropped a notification whose method is not
\* "notify" while a banner had been printed too, and a call got its answer.
C4_Witness ==
    /\ discarded = ProgressLine
    /\ noise = 2
    /\ \E c \in Callers : got[c].kind = "line"

Transient(o) == o.kind = "err" /\ o.isNet /\ o.timeout

\* C5: two transient failures and then a success: the call goes on with the
\* successful reply after exactly two sleeps, of 1 s and then 2 s.
C5_TwoBackoffs ==
    (/\ Len(outcomes) = 3
     /\ Transient(outcomes[1])
     /\ Transient(outcomes[2])
     /\ outcomes[3] = Ok)
    => /\ sleeps = <<1, 2>>
       /\ pmPc \in {"tools", "continue", "done"}
       /\ pmPc = "done" =>
            ~(ret.kind = "error" /\ ret.op \in {"", "process_message"})

C5_Witness ==
    /\ Len(outcomes) = 3
    /\ Transient(outcomes[1])
    /\ Transient(outcomes[2])
    /\ outcomes[3] = Ok
    /\ pmPc = "done"
    /\ ret.kind = "text"

\* C6: a failure that is not transient is returned at once, unwrapped: it
\* is the call's last attempt and only the sleeps of the attempts before it
\* have happened (none when it is the first attempt).
C6_FatalReturnsAtOnce ==
    \A i \in 1..Len(outcomes) :
        (outcomes[i].kind = "err" /\ ~Transient(outcomes[i]))
        => /\ i = Len(outcomes)
           /\ pmPc = "done"
           /\ ret = RetRawErr(outcomes[i])
           /\ Len(sleeps) = i - 1

C6_Witness ==
    /\ Len(outcomes) = 1
    /\ outcomes[1].kind = "err"
    /\ outcomes[1].isNet
    /\ ~outcomes[1].timeout
    /\ pmPc = "done"
    /\ sleeps = <<>>

\* C7: at most 3 generation attempts per call; after 3 transient failures
\* the call returns BridgeError(process_message) wrapping the third error
\* and has dispatched no tool.
C7_ThreeAttempts ==
    /\ Len(outcomes) <= 3
    /\ (Len(outcomes) = 3 /\ \A i \in 1..3 : Transient(outcomes[i]))
       => /\ pmPc \in {"backoff", "done"}
          /\ rounds = 0
          /\ executed = 0
          /\ pmPc = "done" => ret = BridgeError("process_message", outcomes[3])

C7_Witness ==
    /\ Len(outcomes) = 3
    /\ \A i \in 1..3 : Transient(outcomes[i])
    /\ pmPc = "done"

\* C8: a call that dispatched tool calls successfully has handed the results
\* back to the model adapter (ContinueWithToolResults) before it returned.
C8_ContinuesWithResults ==
    (pmPc = "done" /\ rounds > 0 /\ ret.kind = "text") => conts > 0

\* C9: every ProcessMessage call returns.
C9_Terminates == (pmPc = "generate") ~> (pmPc = "done")

\* C10: the returned text is the model's own cleaned content whenever that
\* is not empty; a tool output is returned only when it is empty.
C10_ModelContentFirst ==
    (pmPc = "done" /\ ret.kind = "text")
    => LET own == CleanContent(response.content)
       IN  /\ own # <<>> => ret.text = own
           /\ ret.text # own => rounds > 0

\* --------------------------------------------- the registry's claims

HasUnknown(calls) == \E k \in 1..Len(calls) : calls[k] \notin DOMAIN toolMap
FirstUnknown(calls) ==
    CHOOSE k \in 1..Len(calls) :
        /\ calls[k] \notin DOMAIN toolMap
        /\ \A j \in 1..(k - 1) : calls[j] \in DOMAIN toolMap
DispatchedUnknown ==
    pmPc = "done" /\ rounds > 0 /\ HasUnknown(response.toolCalls)

\* C11 as stated: a reply holding a tool call whose name is not registered
\* makes ProcessMessage fail with the unknown-tool error, and no request
\* went to any provider for that reply.
C11_UnknownToolNoProviderCall ==
    DispatchedUnknown
    => ret = BridgeError("handle_tools", "unknown tool") /\ sent = <<>>

\* C11 amended: such a reply makes ProcessMessage fail in handle_tools; no
\* request goes to a provider for the unregistered call or for any call
\* after it; the calls before it have been executed in order, so the error
\* is the unknown-tool error unless one of those failed first.
C11_UnknownToolStopsDispatch ==
    DispatchedUnknown
    => LET calls == response.toolCalls
           k == FirstUnknown(calls)
       IN  /\ ret.kind = "error" /\ ret.op = "handle_tools"
           /\ Len(sent) < k
           /\ \A i \in 1..Len(sent) :
                \E j \in 1..(k - 1) :
                    toolMap[calls[j]] =
                        Join(config[sent[i].session], sent[i].tool)
           /\ \/ ret.err = "unknown tool"
              \/ /\ k > 1
                 /\ ret.err \in {"tool execution failed",
                                 "database query failed"}
           /\ k = 1 => ret.err = "unknown tool" /\ sent = <<>>

C11_Witness ==
    /\ pmPc = "done"
    /\ rounds > 0
    /\ response.toolCalls = <<Echo, Bogus>>
    /\ Len(sent) = 1
    /\ sent[1].session = 1
    /\ sent[1].tool = Echo
    /\ ret = BridgeError("handle_tools", "unknown tool")

Registered(i, j) ==
    /\ i \in 1..Len(config)
    /\ i \in {serverMap[n] : n \in DOMAIN serverMap}
    /\ j \in 1..Len(listed[i])

\* tool j of provider i shares its sanitized name with no other registered
\* tool and not with the built-in one
NoCollision(i, j) ==
    /\ sanitizeToolName(listed[i][j]) # QueryDatabase
    /\ \A i2 \in 1..Len(config) : \A j2 \in 1..Len(listed[i2]) :
         sanitizeToolName(listed[i2][j2]) = sanitizeToolName(listed[i][j])
         => i2 = i /\ j2 = j

\* C12: after Initialize, a reply whose single tool call names the
\* sanitized name of a tool t that provider p registered without a
\* collision reaches session p and no other, as a tools/call for t.
C12_RoundTrip ==
    \A i \in 1..Len(config) : \A j \in 1..Len(listed[i]) :
        ( /\ initPc = "ok"
          /\ Registered(i, j)
          /\ NoCollision(i, j)
          /\ response.toolCalls = <<sanitizeToolName(listed[i][j])>> )
        => /\ Len(sent) = 1
           /\ sent[1].session = i
           /\ sent[1].tool = listed[i][j]

\* C13: sanitizeToolName applied to its own result changes nothing, and
\* its result holds neither '-' nor ' '.
C13_SanitizeIdempotent ==
    /\ sanitized # Unset
       => \A i \in 1..Len(sanitized) : sanitized[i] \notin {"-", " "}
    /\ resanitized # Unset => resanitized = sanitized

C13_Witness ==
    /\ name = <<"a", "-", " ">>
    /\ sanitized = <<"a", "_", "_">>
    /\ resanitized = <<"a", "_", "_">>

\* the tools registered under the sanitized name n: provider and position
Owners(n) ==
    {p \in UNION {{<<i, j>> : j \in 1..Len(listed[i])} : i \in 1..Len(config)} :
        sanitizeToolName(listed[p[1]][p[2]]) = n}
LastOwner(n) ==
    CHOOSE p \in Owners(n) :
        \A q \in Owners(n) : q[1] < p[1] \/ (q[1] = p[1] /\ q[2] <= p[2])
Collide(n) == Cardinality({p[1] : p \in Owners(n)}) >= 2

\* C14: when tools of different providers have the same sanitized name,
\* the registry's entry for it is the one of the provider that comes last
\* in the configuration.
C14_LastRegisteredWins ==
    closes = 0
    => \A n \in ToolNames :
         Collide(n)
         => LET p == LastOwner(n)
            IN  /\ n \in DOMAIN toolMap
                /\ toolMap[n] = Join(config[p[1]], listed[p[1]][p[2]])

C14_Witness ==
    /\ initPc = "ok"
    /\ closes = 0
    /\ listed = <<<<GetTicker, Echo>>, <<GetDashTicker>>>>
    /\ toolMap[GetTicker] = Join(config[2], GetDashTicker)

\* C15: the tools handed to the model adapter never hold two entries with
\* the same sanitized name.
C15_ModelToolNamesUnique ==
    toolsSet
    => \A a, b \in 1..Len(llmTools) :
         a # b => convertTools(llmTools)[a] # convertTools(llmTools)[b]

\* C16: after a successful Initialize the name query_database is mapped to
\* the built-in tool, and no call of it goes to a provider.
C16_BuiltInStaysBuiltIn ==
    initPc = "ok"
    => /\ toolMap[QueryDatabase] = BuiltIn
       /\ \A k \in 1..Len(response.toolCalls) :
            response.toolCalls[k] = QueryDatabase
            => \A i \in 1..Len(sent) :
                 sanitizeToolName(sent[i].tool) # QueryDatabase

\* C17: when creating the session, the handshake or the tool listing fails
\* for provider i, Initialize returns that failure at once: no provider
\* after i has been spawned, every provider before i was set up, and the
\* model adapter's tools are not set.
C17_FailFast ==
    /\ initPc = "failed" => initErr.stage # ""
    /\ initErr.stage # ""
       => /\ initPc = "failed"
          /\ idx = initErr.at
          /\ \A j \in 1..Len(config) :
               /\ j > initErr.at => ~sess[j].spawned /\ listed[j] = <<>>
               /\ j < initErr.at => sess[j].spawned /\ listed[j] # <<>>
          /\ ~toolsSet
          /\ llmTools = <<>>

C17_Witness ==
    /\ initPc = "failed"
    /\ Len(config) = 2
    /\ initErr = [stage |-> "list", at |-> 1, err |-> TimeoutErr.kind]
    /\ sess[1].closeCalls = 1
    /\ ~sess[2].spawned

C19_CloseRunsAllSteps ==
    \A i \in 1..Len(config) :
        sess[i].closeCalls > 0
        => /\ sess[i].attempted = CloseStepSet
           /\ sess[i].reported = closeFaults

\* C20: when the provider does not answer the probe in time, NewMCPClient
\* calls Close on the session and returns an error without a handle:
\* Initialize fails there and nothing of that provider is registered.
C20_ProbeTimeoutTearsDown ==
    (initErr.stage = "create" /\ initErr.err = "timeout")
    => LET i == initErr.at
       IN  /\ initPc = "failed"
           /\ sess[i].spawned
           /\ sess[i].closeCalls = 1
           /\ config[i] \notin DOMAIN serverMap
           /\ listed[i] = <<>>
           /\ \A n \in DOMAIN toolMap :
                \/ toolMap[n] = BuiltIn
                \/ \E k \in 1..(i - 1) : \E j \in 1..Len(listed[k]) :
                     toolMap[n] = Join(config[k], listed[k][j])

C20_Witness ==
    /\ initErr = [stage |-> "create", at |-> 2, err |-> "timeout"]
    /\ closes = 0
    /\ sess[2].closeCalls = 1
    /\ sess[2].attempted = CloseStepSet
    /\ DOMAIN serverMap = {config[1]}

\* ================================================ arguments and results

\* The reply handled carried exactly these calls with these arguments.
Handled(calls, a) ==
    /\ rounds = 1
    /\ response.toolCalls = calls
    /\ callArgs = a

\* C21: a call of the built-in tool with {"query": "SELECT 1"} is run by
\* the database, and when the database answers with its one row of one
\* column the call succeeds and its output is that table.
C21_SelectOneSucceeds ==
    Handled(<<QueryDatabase>>, <<Arg1("query", Str(SelectOne))>>)
    => /\ dbQueries = <<SelectOne>>
       /\ toolErr = "" => toolResults \in {<<formatDatabaseResult(r)>> : r \in RowSets}

IsSelect(q) ==
    Len(q) >= 6 /\ ToLower(SubSeq(q, 1, 6)) = <<"s", "e", "l", "e", "c", "t">>

\* C22: every statement the built-in tool gives to the database is a
\* SELECT; a statement of any other kind is rejected before it gets there.
C22_OnlySelectReachesDatabase ==
    \A i \in 1..Len(dbQueries) : IsSelect(dbQueries[i])

\* The positions, in call order, of the calls of a reply that the registry
\* maps to a provider.
ProviderCalls ==
    SelectSeq([i \in 1..Len(response.toolCalls) |-> i],
              LAMBDA i : response.toolCalls[i] \in DOMAIN toolMap
                         /\ toolMap[response.toolCalls[i]] # BuiltIn)

\* C23: the arguments of every tools/call request have exactly the keys
\* the model supplied for that call; a number under "limit" or "interval"
\* is sent as its decimal string, every other value is sent as it came.
C23_ArgumentCoercion ==
    rounds = 1 =>
    \A k \in 1..Len(sent) :
        LET a == callArgs[ProviderCalls[k]]
            b == sent[k].arguments
        IN  /\ DOMAIN b = DOMAIN a
            /\ \A key \in DOMAIN a :
                 b[key] = IF a[key].kind = "number"
                             /\ key \in {"limit", "interval"}
                          THEN [kind |-> "string", val |-> Sprintv(a[key].val)]
                          ELSE a[key]

C23_Witness ==
    /\ Handled(<<Echo>>, <<Arg2("interval", Num(10), "count", Num(3))>>)
    /\ Len(sent) = 1
    /\ sent[1].arguments =
         Arg2("interval", Str(<<"1", "0">>), "count", Num(3))

\* C24: the output of a provider-backed call that succeeded is the texts
\* of the result's text items, joined and trimmed: "hi" for an echo of hi.
C24_OutputIsTrimmedTexts ==
    (rounds = 1 /\ response.toolCalls = <<Echo>> /\ toolErr = "")
    => toolResults \in
         {<<formatToolResultTexts(TextContents(o.items))>> : o \in ArgOutcomes}

\* The call handleToolCalls stopped at, when it stopped because the call
\* could not be dispatched: every call before it ran.
Stopped == executed + 1

\* C30: a call that cannot be dispatched fails before any tool executes
\* for it.  A built-in call whose "query" is missing or no string fails
\* with "invalid query argument", a call whose provider has no session
\* with "unknown MCP server"; the database has then been given one
\* statement and the providers one request for each call before it, and
\* nothing for it.
C30_UndispatchableRunsNothing ==
    rounds = 1 =>
    LET calls == response.toolCalls
        i == Stopped
        first == callArgs[1]
    IN
    /\ toolErr = "invalid query argument"
       => /\ i <= Len(calls)
          /\ toolMap[calls[i]] = BuiltIn
          /\ ~("query" \in DOMAIN callArgs[i]
               /\ callArgs[i]["query"].kind = "string")
          /\ Len(dbQueries) + Len(sent) = i - 1
    /\ toolErr = "unknown MCP server"
       => /\ i <= Len(calls)
          /\ toolMap[calls[i]] # BuiltIn
          /\ SplitN2(toolMap[calls[i]])[1] \notin DOMAIN serverMap
          /\ Len(dbQueries) + Len(sent) = i - 1
    /\ (calls[1] = QueryDatabase
        /\ ~("query" \in DOMAIN first /\ first["query"].kind = "string"))
       => /\ toolErr = "invalid query argument"
          /\ executed = 0
          /\ dbQueries = <<>>
          /\ sent = <<>>
    /\ (calls[1] = Echo /\ config = <<TeamPrices>>)
       => /\ toolErr = "unknown MCP server"
          /\ executed = 0
          /\ dbQueries = <<>>
          /\ sent = <<>>

C30_Witness ==
    /\ Handled(<<Echo, QueryDatabase>>,
               <<Arg1("text", Str(Hi)), Arg1("query", Num(1))>>)
    /\ toolErr = "invalid query argument"
    /\ Len(sent) = 1
    /\ dbQueries = <<>>

\* C25: when handleToolCalls has dispatched every call of a reply, it has
\* written one tools/call request for each provider-backed call, in call
\* order, to the session of the provider that registered the tool and
\* under the tool's native name; a name called twice is requested twice.
C25_OneRequestToOwner ==
    (initPc = "ok" /\ response.toolCalls # <<>> /\ toolErr = "")
    => /\ Len(sent) = Len(ProviderCalls)
       /\ \A k \in 1..Len(sent) :
            \E i \in 1..Len(config) : \E j \in 1..Len(listed[i]) :
                /\ toolMap[response.toolCalls[ProviderCalls[k]]]
                     = Join(config[i], listed[i][j])
                /\ sent[k].session = i
                /\ sent[k].tool = listed[i][j]

\* C26: once the 300 s of a ProcessMessage call have passed, the call
\* starts no model request, no backoff sleep and no tool call.
C26_NoWorkAfterDeadline == ~lateWork

\* C28: no step of ProcessMessage changes the registry or the sessions:
\* toolMap, the tool list, serverMap and the sessions are after the step
\* what they were before it, whether the call ends with a text or fails.
C28_RegistryUnchanged ==
    [][/\ toolMap' = toolMap
       /\ tools' = tools
       /\ llmTools' = llmTools
       /\ serverMap' = serverMap
       /\ sess' = sess]_vars

C28_Witness ==
    /\ pmPc = "done"
    /\ ret = BridgeError("handle_tools", "unknown tool")
    /\ response.toolCalls[1] = Bogus
    /\ DOMAIN toolMap = {QueryDatabase, Echo}
    /\ DOMAIN serverMap = {Srv}

\* C27: a provider call that is waiting for its response once Bridge.Close
\* has been called stops waiting, whatever the provider and the 10 s timer
\* do.
C27_CloseEndsWait ==
    \A c \in Callers : (closes > 0 /\ pc[c] = "wait") ~> (pc[c] # "wait")

\* C29: a call that is sending to or waiting for its provider holds no
\* lock of the bridge (the read lock is held only across the serverMap
\* lookup), so a call waiting for provider A keeps no other call from
\* looking up, sending to and receiving from provider B.
C29_NoLockWhileWaiting ==
    /\ \A c \in Callers : hPc[c] \in {"send", "wait", "done"} => c \notin readers
    /\ readers = {c \in Callers : hPc[c] = "locked"}

C29_Witness ==
    /\ hPc[1] = "wait" /\ hTarget[1] = 1 /\ pending[1] = 1 /\ inbox[1] = 0
    /\ hPc[2] = "done" /\ hTarget[2] = 2 /\ hGot[2] = "result"

\* ======================================= ids, the reader, late responses

\* C33: the ids of the requests written to one session increase strictly
\* in write order, so no two requests carry the same id.
C33_IdsStrictlyIncrease ==
    \A i \in 1..Len(wire) : \A j \in 1..Len(wire) :
        i < j => wire[i].id < wire[j].id

\* C34: the reader never blocks for good: a line waiting in the output
\* stream is read, and a send on the response channel completes.
C34_ReaderKeepsDraining ==
    (stdout # <<>> \/ readerPc = "forward")
        ~> (stdout = <<>> /\ readerPc # "forward")

\* C36: a sequential call that returns a response returns the response to
\* the request it wrote itself, also after an earlier call timed out and
\* the response to that one came late.
C36_NoLateResponseReturned ==
    \A c \in Callers :
        (pc[c] = "done" /\ got[c].kind = "line" /\ mySeq[c] > 0)
        => got[c].id = wire[mySeq[c]].id

\* ================================================== backoff after failures

Transients == {i \in 1..Len(outcomes) : Transient(outcomes[i])}

\* C39: every transient generation failure is followed by a backoff sleep,
\* the third included: the sleeps are 1 s, 2 s, 4 s in that order, their
\* number is the number of transient failures once the failure's sleep is
\* over, and a call that ran out of attempts has slept three times before
\* it returned its BridgeError.
C39_SleepAfterEveryFailure ==
    /\ \A i \in 1..Len(sleeps) : sleeps[i] = 2 ^ (i - 1)
    /\ pmPc # "backoff" => Len(sleeps) = Cardinality(Transients)
    /\ pmPc = "backoff" => Len(sleeps) = Cardinality(Transients) - 1
    /\ (pmPc = "done" /\ ret.kind = "error" /\ ret.op = "process_message")
       => sleeps = <<1, 2, 4>>

C39_Witness ==
    /\ pmPc = "done"
    /\ ret.kind = "error"
    /\ ret.op = "process_message"
    /\ Cardinality(Transients) = 3
    /\ sleeps = <<1, 2, 4>>

\* ================================================ a failing call of a reply

\* The call handleToolCalls returned its error at: the failing call counts
\* among the executed ones when it failed while executing.
FailedAt ==
    IF toolErr \in {"database query failed", "tool execution failed"}
    THEN executed
    ELSE executed + 1

\* How many calls before position k the registry maps to a provider
ProviderCallsBefore(k) ==
    Cardinality({j \in 1..Len(ProviderCalls) : ProviderCalls[j] < k})

\* C37: the calls of a reply are dispatched one after the other, in order.
\* When call k fails, handleToolCalls returns the error and no result; no
\* call after k is dispatched; the calls before k have all been executed,
\* one request or statement each, and their effects stay.
C37_FailureDropsResults ==
    (rounds = 1 /\ toolErr # "") =>
    LET calls == response.toolCalls
        k == FailedAt
        p == ProviderCallsBefore(k)
    IN
    /\ k \in 1..Len(calls)
    /\ toolResults = <<>>
    /\ Len(sent) = p + (IF toolErr = "tool execution failed" THEN 1 ELSE 0)
    /\ Len(dbQueries) >= (k - 1) - p
    /\ Len(dbQueries) <= (k - 1) - p
                         + (IF toolErr = "database query failed" THEN 1 ELSE 0)
    /\ \A j \in 1..Len(sent) :
         /\ ProviderCalls[j] <= k
         /\ sent[j].arguments = convertArgs(callArgs[ProviderCalls[j]])

C37_Witness ==
    /\ Handled(<<Echo, QueryDatabase>>,
               <<Arg1("text", Str(Hi)), Arg1("query", Str(SelectUsers))>>)
    /\ toolErr = "database query failed"
    /\ executed = 2
    /\ Len(sent) = 1
    /\ dbQueries = <<SelectUsers>>
    /\ toolResults = <<>>

\* ================================================= names given to the model

\* C40: after a successful Initialize every tool name the model is given
\* (the model adapter's sanitizer applied to each tool of the list that
\* SetTools received) is a key of toolMap.
C40_AdvertisedNamesAreKeys ==
    (initPc = "ok" /\ closes = 0)
    => \A i \in 1..Len(llmTools) :
         convertTools(llmTools)[i] \in DOMAIN toolMap

C40_Witness ==
    /\ initPc = "ok"
    /\ closes = 0
    /\ \E i \in 1..Len(llmTools) : llmTools[i] = GetDashTicker
    /\ GetTicker \in DOMAIN toolMap
    /\ GetDashTicker \notin DOMAIN toolMap

\* ============================================ a failed Initialize's sessions

C31_EnvOverridesApplied ==
    \A i \in 1..Len(config) :
        sess[i].spawned
        => \A k \in DOMAIN envCfg[i] :
             /\ k \in DOMAIN procEnv[i]
             /\ procEnv[i][k] = envCfg[i][k]

\* ===================================================== the startup's order

\* What a session's startup does, in order
StartupOrder ==
    <<Wrote("tools/list", 1), Consumed(1),
      Wrote("initialize", 2), Consumed(2),
      Wrote("tools/list", 3), Consumed(3),
      ToolsRegistered>>

IsPrefix(s, t) == Len(s) <= Len(t) /\ \A i \in 1..Len(s) : s[i] = t[i]

\* C35: each provider is started in one order: the probe tools/list with
\* id 1 right after the spawn, then initialize with id 2, then tools/list
\* with id 3, each written only after the response to the one before was
\* consumed; its tools are registered only after the third response.
C35_StartupOrder ==
    \A i \in 1..Len(config) :
        /\ IsPrefix(suLog[i], StartupOrder)
        /\ suLog[i] # <<>> => sess[i].spawned
        /\ (listed[i] # <<>> \/ config[i] \in DOMAIN serverMap)
           => suLog[i] = StartupOrder

C35_Witness ==
    /\ Len(config) = 2
    /\ initPc = "ok"
    /\ suLog[1] = StartupOrder
    /\ suLog[2] = StartupOrder
    /\ DOMAIN serverMap = {config[1], config[2]}

\* ====================================================== the registry's lock

\* Close is about to clear toolMap while a handleToolCalls is about to
\* read it, and neither holds b.mu.
RegistryRace ==
    /\ closePc = "drop"
    /\ ~writer
    /\ \E c \in Callers : hPc[c] = "idle" /\ c \notin readers

\* C32: every read of toolMap and serverMap by handleToolCalls and every
\* write of them by Close is made while b.mu is held, and Close never
\* clears the registry while a handleToolCalls reads it unlocked.
C32_RegistryUnderLock ==
    /\ unlocked = {}
    /\ ~RegistryRace

====
